---------------------------- MODULE Spec2Model ----------------------------
(***************************************************************************)
(* A model of the numerical core of visualize-zeta: the ComplexNumber      *)
(* class, zeta() and createZetaCurve() of zeta.ts, and the data generation *)
(* of initPrimes() of primes.ts (isPrime, the prime scan, the pi(x) step   *)
(* sequence, the Li(x) curve, the waves and the explicit-sum curve).       *)
(*                                                                         *)
(* JavaScript numbers are modelled by the values below: exact rationals,   *)
(* the IEEE special values NaN, +Infinity and -Infinity, and terms that    *)
(* stand for a value the model does not evaluate (an unknown input, or     *)
(* the result of Math.log, Math.exp, Math.cos, Math.sin at a point where   *)
(* the result is not rational).  Arithmetic on two rationals is exact, or  *)
(* an enclosure of the exact result once its integers leave 32 bits;       *)
(* arithmetic with NaN or an infinity follows IEEE 754; arithmetic with a  *)
(* term builds the term of the operation, operands in order, so that the   *)
(* shape of a term records how a value was computed.                       *)
(***************************************************************************)
EXTENDS Integers, Sequences, FiniteSets, TLC

VARIABLES
    opA, opB, opName, opRes, chained,      \* a use of the ComplexNumber operations
    num, verdict,                          \* a call of isPrime
    scanI, primes, stepI, stepPoints, count, prPc,  \* initPrimes: data generation, pi(x)
    s, terms, n, etaSum, denominator, zetaRes, zPc   \* a call of zeta

VARIABLES
    liX, integral, liPoints, liPc,         \* initPrimes: the Li(x) curve
    gammas, allGammas, wvGamma, wvX, wavePoint,    \* initPrimes: a sample of a wave
    liVal, pairTerms, correction, sumPoint,        \* and of the explicit-sum curve
    cvT, cvPoints, cvPc                    \* createZetaCurve: the loop over t

VARIABLES
    zeroPositions, trivialPos, primePos,   \* initZeta: the markers of the zeros and primes
    piPoints, piCount, approxX, approxPoints,      \* the pi(x) steps and the x / ln(x) curve
    tabI, tabPc                            \* the position in initZeta

VARIABLES
    cleanupCurrentScene,                   \* main.ts: the cleanup of the tab shown, or null
    sceneChildren, legends, labelEls,      \* scene.children, and the elements in the document
    callTab, invoked, swPc                 \* the calls of switchTab, and the position in one

VARIABLES
    trialI, trialPc,                       \* isPrime: the loop variable i, the position
    sumT, wsPc                             \* initPrimes: t of the inner sum, the position in
                                           \* the loop of a wave or of the explicit sum

cxVars == <<opA, opB, opName, opRes, chained>>
ipVars == <<num, verdict>>
prVars == <<scanI, primes, stepI, stepPoints, count, prPc>>
ztVars == <<s, terms, n, etaSum, denominator, zetaRes, zPc>>
liVars == <<liX, integral, liPoints, liPc>>
wvVars ==
    <<gammas, allGammas, wvGamma, wvX, wavePoint, liVal, pairTerms, correction, sumPoint>>
cvVars == <<cvT, cvPoints, cvPc>>
tbVars ==
    <<zeroPositions, trivialPos, primePos, piPoints, piCount, approxX, approxPoints,
      tabI, tabPc>>
swVars == <<cleanupCurrentScene, sceneChildren, legends, labelEls, callTab, invoked, swPc>>
lpVars == <<trialI, trialPc, sumT, wsPc>>
vars == <<cxVars, ipVars, prVars, ztVars, liVars, wvVars, cvVars, tbVars, swVars, lpVars>>

---------------------------------------------------------------------------
(* JavaScript numbers *)

Abs(x) == IF x < 0 THEN -x ELSE x

RECURSIVE GCD(_, _)
GCD(a, b) == IF b = 0 THEN a ELSE GCD(b, a % b)

Node(tag, a, b, args) == [tag |-> tag, num |-> a, den |-> b, args |-> args]

\* the rational a/b (b # 0) in lowest terms with a positive denominator
Rat(a, b) ==
    LET g == GCD(Abs(a), Abs(b))
        sg == IF b < 0 THEN -1 ELSE 1
    IN  Node("q", sg * (a \div g), Abs(b) \div g, <<>>)

Lit(a) == Node("q", a, 1, <<>>)
NaN == Node("nan", 0, 0, <<>>)
PosInf == Node("inf", 0, 0, <<>>)
NegInf == Node("ninf", 0, 0, <<>>)
\* an input whose value the model leaves open
Sym(k) == Node("sym", k, 0, <<>>)
Un(tag, x) == Node(tag, 0, 0, <<x>>)
Bin(tag, x, y) == Node(tag, 0, 0, <<x, y>>)

IsRat(x) == x.tag = "q"
IsNaN(x) == x.tag = "nan"
IsInf(x) == x.tag \in {"inf", "ninf"}
IsValue(x) == x.tag \in {"q", "nan", "inf", "ninf"}
IsZero(x) == IsRat(x) /\ x.num = 0

\* -1, 0 or 1: the sign of a rational or an infinity
Sgn(x) ==
    CASE x.tag = "inf" -> 1
      [] x.tag = "ninf" -> -1
      [] OTHER -> IF x.num > 0 THEN 1 ELSE IF x.num < 0 THEN -1 ELSE 0

InfOf(sg) == IF sg > 0 THEN PosInf ELSE NegInf

RECURSIVE IntPow(_, _)
IntPow(b, k) == IF k = 0 THEN 1 ELSE b * IntPow(b, k - 1)

\* Rationals are kept exact for as long as the integers of their arithmetic
\* stay below 2^31.  Past that, a value is an enclosure: Iv(lo, hi) is a
\* real number between lo / 2^FracBits and hi / 2^FracBits.
FracBits == 20

IntMax == (IntPow(2, 30) - 1) + IntPow(2, 30)

Iv(lo, hi) == Node("iv", lo, hi, <<>>)
IsIv(x) == x.tag = "iv"
IsNum(x) == x.tag \in {"q", "iv"}

\* a * b and a + b stay below 2^31
ProdFits(a, b) == a = 0 \/ b = 0 \/ Abs(a) <= IntMax \div Abs(b)
SumFits(a, b) == Abs(a) <= IntMax - Abs(b)

\* the first k binary digits of b / q (0 <= b < q), and the remainder left
RECURSIVE FracDigits(_, _, _, _)
FracDigits(b, q, k, acc) ==
    IF k = 0 THEN [acc |-> acc, rest |-> b]
    ELSE IF b >= q - b THEN FracDigits(b - (q - b), q, k - 1, 2 * acc + 1)
         ELSE FracDigits(b + b, q, k - 1, 2 * acc)

\* the enclosure of a rational; an enclosure is left as it is
ToIv(x) ==
    IF IsIv(x) THEN x
    ELSE LET f == FracDigits(x.num % x.den, x.den, FracBits, 0)
             lo == (x.num \div x.den) * IntPow(2, FracBits) + f.acc
         IN  Iv(lo, IF f.rest = 0 THEN lo ELSE lo + 1)

ivNeg(x) == Iv(-x.den, -x.num)
ivAdd(x, y) == Iv(x.num + y.num, x.den + y.den)

\* an enclosure times the rational r
ivMulRat(x, r) ==
    LET Floor(a) == a \div r.den
        Ceil(a) == -((-a) \div r.den)
    IN  IF r.num >= 0 THEN Iv(Floor(x.num * r.num), Ceil(x.den * r.num))
        ELSE Iv(Floor(x.den * r.num), Ceil(x.num * r.num))

\* unary minus
fneg(x) ==
    CASE IsNaN(x) -> NaN
      [] IsRat(x) -> Rat(-x.num, x.den)
      [] IsIv(x) -> ivNeg(x)
      [] x.tag = "inf" -> NegInf
      [] x.tag = "ninf" -> PosInf
      [] OTHER -> Un("neg", x)

\* x + y
fadd(x, y) ==
    CASE IsNaN(x) \/ IsNaN(y) -> NaN
      [] IsRat(x) /\ IsRat(y) ->
            IF /\ ProdFits(x.num, y.den) /\ ProdFits(y.num, x.den) /\ ProdFits(x.den, y.den)
               /\ SumFits(x.num * y.den, y.num * x.den)
            THEN Rat(x.num * y.den + y.num * x.den, x.den * y.den)
            ELSE ivAdd(ToIv(x), ToIv(y))
      [] IsNum(x) /\ IsNum(y) -> ivAdd(ToIv(x), ToIv(y))
      [] IsInf(x) /\ IsInf(y) -> IF x = y THEN x ELSE NaN
      [] IsInf(x) /\ IsRat(y) -> x
      [] IsRat(x) /\ IsInf(y) -> y
      [] OTHER -> Bin("add", x, y)

\* x - y
fsub(x, y) ==
    CASE IsNaN(x) \/ IsNaN(y) -> NaN
      [] IsRat(x) /\ IsRat(y) ->
            IF /\ ProdFits(x.num, y.den) /\ ProdFits(y.num, x.den) /\ ProdFits(x.den, y.den)
               /\ SumFits(x.num * y.den, y.num * x.den)
            THEN Rat(x.num * y.den - y.num * x.den, x.den * y.den)
            ELSE ivAdd(ToIv(x), ivNeg(ToIv(y)))
      [] IsNum(x) /\ IsNum(y) -> ivAdd(ToIv(x), ivNeg(ToIv(y)))
      [] IsInf(x) /\ IsInf(y) -> IF x = y THEN NaN ELSE x
      [] IsInf(x) /\ IsRat(y) -> x
      [] IsRat(x) /\ IsInf(y) -> fneg(y)
      [] OTHER -> Bin("sub", x, y)

\* the logarithm of a rational above 1: a finite, non-zero real
IsFiniteLog(x) == x.tag = "log" /\ IsRat(x.args[1]) /\ Sgn(x.args[1]) > 0

\* x * y
fmul(x, y) ==
    CASE IsNaN(x) \/ IsNaN(y) -> NaN
      [] IsRat(x) /\ IsRat(y) ->
            IF ProdFits(x.num, y.num) /\ ProdFits(x.den, y.den)
            THEN Rat(x.num * y.num, x.den * y.den)
            ELSE ivMulRat(ToIv(x), y)
      [] IsIv(x) /\ IsRat(y) -> IF IsZero(y) THEN Lit(0) ELSE ivMulRat(x, y)
      [] IsRat(x) /\ IsIv(y) -> IF IsZero(x) THEN Lit(0) ELSE ivMulRat(y, x)
      [] IsValue(x) /\ IsValue(y) ->
            IF IsZero(x) \/ IsZero(y) THEN NaN ELSE InfOf(Sgn(x) * Sgn(y))
      [] IsZero(x) /\ IsFiniteLog(y) -> Lit(0)
      [] IsFiniteLog(x) /\ IsZero(y) -> Lit(0)
      [] OTHER -> Bin("mul", x, y)

\* x / y.  The sign of a zero is not modelled: the one divisor in the
\* program is re*re + im*im, a sum of squares, which is never -0.
fdiv(x, y) ==
    CASE IsNaN(x) \/ IsNaN(y) -> NaN
      [] IsRat(x) /\ IsRat(y) ->
            IF y.num = 0 THEN (IF x.num = 0 THEN NaN ELSE InfOf(Sgn(x)))
            ELSE IF ProdFits(x.num, y.den) /\ ProdFits(x.den, y.num)
                 THEN Rat(x.num * y.den, x.den * y.num)
                 ELSE ivMulRat(ToIv(x), Rat(y.den, y.num))
      [] IsIv(x) /\ IsRat(y) /\ ~IsZero(y) -> ivMulRat(x, Rat(y.den, y.num))
      [] IsInf(x) /\ IsInf(y) -> NaN
      [] IsInf(x) /\ IsRat(y) -> InfOf(Sgn(x) * (IF Sgn(y) < 0 THEN -1 ELSE 1))
      [] IsRat(x) /\ IsInf(y) -> Lit(0)
      [] OTHER -> Bin("div", x, y)

\* x <= y and x < y on rationals
fle(x, y) == IsRat(x) /\ IsRat(y) /\ x.num * y.den <= y.num * x.den

flt(x, y) == IsRat(x) /\ IsRat(y) /\ x.num * y.den < y.num * x.den

\* Math.log
MathLog(x) ==
    CASE IsNaN(x) -> NaN
      [] x.tag = "inf" -> PosInf
      [] x.tag = "ninf" -> NaN
      [] IsRat(x) ->
            IF Sgn(x) < 0 THEN NaN
            ELSE IF Sgn(x) = 0 THEN NegInf
            ELSE IF x = Lit(1) THEN Lit(0)
            ELSE Un("log", x)
      [] OTHER -> Un("log", x)

\* k * ln(b) for an integer k and a rational b > 0, b # 1
IsIntTimesLog(x) ==
    /\ x.tag = "mul"
    /\ IsRat(x.args[1]) /\ x.args[1].den = 1
    /\ IsFiniteLog(x.args[2])

\* Math.exp; exp(k * ln b) is the rational b^k
MathExp(x) ==
    CASE IsNaN(x) -> NaN
      [] x.tag = "inf" -> PosInf
      [] x.tag = "ninf" -> Lit(0)
      [] IsZero(x) -> Lit(1)
      [] IsIntTimesLog(x) ->
            LET k == x.args[1].num
                b == x.args[2].args[1]
            IN  IF k >= 0 THEN Rat(IntPow(b.num, k), IntPow(b.den, k))
                ELSE Rat(IntPow(b.den, -k), IntPow(b.num, -k))
      [] OTHER -> Un("exp", x)

\* Math.cos
MathCos(x) ==
    CASE IsNaN(x) \/ IsInf(x) -> NaN
      [] IsZero(x) -> Lit(1)
      [] OTHER -> Un("cos", x)

\* Math.sin
MathSin(x) ==
    CASE IsNaN(x) \/ IsInf(x) -> NaN
      [] IsZero(x) -> Lit(0)
      [] OTHER -> Un("sin", x)

\* Math.sqrt; the root of a square of rationals is exact
MathSqrt(x) ==
    CASE IsNaN(x) \/ x.tag = "ninf" -> NaN
      [] x.tag = "inf" -> PosInf
      [] IsRat(x) ->
            IF Sgn(x) < 0 THEN NaN
            ELSE IF /\ \E r \in 0..x.num : r * r = x.num
                    /\ \E r \in 1..x.den : r * r = x.den
                 THEN Rat(CHOOSE r \in 0..x.num : r * r = x.num,
                          CHOOSE r \in 1..x.den : r * r = x.den)
                 ELSE Un("sqrt", x)
      [] OTHER -> Un("sqrt", x)

\* Math.abs
MathAbs(x) ==
    CASE IsNaN(x) -> NaN
      [] IsInf(x) -> PosInf
      [] IsRat(x) -> Rat(Abs(x.num), x.den)
      [] OTHER -> Un("abs", x)

---------------------------------------------------------------------------
(* class ComplexNumber *)

ComplexNumber(re, im) == [re |-> re, im |-> im]

\* add with the real part of c added to both components
add_reTwice(this, c) == ComplexNumber(fadd(this.re, c.re), fadd(this.im, c.re))

add(this, c) == ComplexNumber(fadd(this.re, c.re), fadd(this.im, c.im))

sub(this, c) == ComplexNumber(fsub(this.re, c.re), fsub(this.im, c.im))

multiply(this, c) ==
    ComplexNumber(
        fsub(fmul(this.re, c.re), fmul(this.im, c.im)),
        fadd(fmul(this.re, c.im), fmul(this.im, c.re)))

pow(base, exponent) ==
    LET lnBase == MathLog(base)
        a == fmul(exponent.re, lnBase)
        b == fmul(exponent.im, lnBase)
        expA == MathExp(a)
    IN  ComplexNumber(fmul(expA, MathCos(b)), fmul(expA, MathSin(b)))

\* inv without the conjugation
inv_noConjugate(this) ==
    LET denom == fadd(fmul(this.re, this.re), fmul(this.im, this.im))
    IN  ComplexNumber(fdiv(this.re, denom), fdiv(this.im, denom))

\* inv that intercepts a zero divisor and returns zero
inv_guarded(this) ==
    LET denom == fadd(fmul(this.re, this.re), fmul(this.im, this.im))
    IN  IF IsZero(denom) THEN ComplexNumber(Lit(0), Lit(0))
        ELSE ComplexNumber(fdiv(this.re, denom), fdiv(fneg(this.im), denom))

inv(this) ==
    LET denom == fadd(fmul(this.re, this.re), fmul(this.im, this.im))
    IN  ComplexNumber(fdiv(this.re, denom), fdiv(fneg(this.im), denom))


Zero == ComplexNumber(Lit(0), Lit(0))
One == ComplexNumber(Lit(1), Lit(0))
\* a variable that holds no value yet
Unset == ComplexNumber(Node("unset", 0, 0, <<>>), Node("unset", 0, 0, <<>>))

---------------------------------------------------------------------------
(* isPrime and the data generation of initPrimes *)

maxN == 100

\* the loop of isPrime with i < Math.sqrt(num) for its bound
RECURSIVE isPrimeLoop_strictBound(_, _)
isPrimeLoop_strictBound(nm, i) ==
    IF ~(i * i < nm) THEN TRUE
    ELSE IF nm % i = 0 THEN FALSE
    ELSE isPrimeLoop_strictBound(nm, i + 1)

\* the for loop of isPrime from i on.  For the integers of the model,
\* i <= Math.sqrt(num) is i * i <= num: the square root of a perfect square
\* is exact and Math.sqrt is monotone.
RECURSIVE isPrimeLoop(_, _)
isPrimeLoop(nm, i) ==
    IF ~(i * i <= nm) THEN TRUE
    ELSE IF nm % i = 0 THEN FALSE
    ELSE isPrimeLoop(nm, i + 1)

\* isPrime without the test num < 2
isPrime_noSmallTest(nm) == isPrimeLoop(nm, 2)

isPrime(nm) == IF nm < 2 THEN FALSE ELSE isPrimeLoop(nm, 2)

Vector3(x, y, z) == [x |-> x, y |-> y, z |-> z]

\* one iteration of the prime scan: if (isPrime(i)) primes.push(i)
scanBody(ps, i) == IF isPrime(i) THEN Append(ps, i) ELSE ps

\* the pi(x) loop body without the horizontal move
stepBody_noHorizontal(pts, p, cnt) == Append(pts, Vector3(p, cnt + 1, 0))

\* the pi(x) loop body that pushes the jump point before count++
stepBody_lateCount(pts, p, cnt) ==
    LET lastX == pts[Len(pts)].x
        horizontal == IF p > lastX THEN Append(pts, Vector3(p, cnt, 0)) ELSE pts
    IN  Append(horizontal, Vector3(p, cnt, 0))

\* the pi(x) loop body that pushes the jump point before the horizontal one
stepBody_jumpFirst(pts, p, cnt) ==
    LET lastX == pts[Len(pts)].x
        jump == Append(pts, Vector3(p, cnt + 1, 0))
    IN  IF p > lastX THEN Append(jump, Vector3(p, cnt, 0)) ELSE jump

\* one iteration of the pi(x) loop for the prime p with `cnt` primes before it
stepBody(pts, p, cnt) ==
    LET lastX == pts[Len(pts)].x
        horizontal == IF p > lastX THEN Append(pts, Vector3(p, cnt, 0)) ELSE pts
    IN  Append(horizontal, Vector3(p, cnt + 1, 0))

\* the finish line to maxN
stepFinish(pts, cnt) == Append(pts, Vector3(maxN, cnt, 0))

\* const dt = 0.1
dt == Rat(1, 10)

\* the value of `integral` that liPoints[j] holds.  Every point of the Li
\* curve holds the running integral, which is the sum held by the point
\* before it plus one more term; the model writes the shared part of that
\* sum as a reference to the point before, instead of a copy of its term.
PointY(j) == Node("pointY", j, 0, <<>>)

\* the Li loop body with `integral = val * dt` for `integral += val * dt`
liBody_noAccumulate(x, acc) ==
    LET mid == fadd(x, fdiv(dt, Lit(2)))
        val == fdiv(Lit(1), MathLog(mid))
    IN  Vector3(fadd(x, dt), fmul(val, dt), Lit(0))

\* one iteration of the Li loop at x with the running integral acc: the
\* point pushed, whose y is the integral after `integral += val * dt`
liBody(x, acc) ==
    LET mid == fadd(x, fdiv(dt, Lit(2)))
        val == fdiv(Lit(1), MathLog(mid))
    IN  Vector3(fadd(x, dt), fadd(acc, fmul(val, dt)), Lit(0))

\* at most k further iterations of the Li loop from the loop state st (the
\* loop variable x, the running integral, the points pushed so far)
RECURSIVE liLoopUpTo(_, _)
liLoopUpTo(st, k) ==
    IF k = 0 \/ ~fle(st.x, Lit(maxN)) THEN st
    ELSE liLoopUpTo([x |-> fadd(st.x, dt),
                     integral |-> PointY(Len(st.liPoints) + 1),
                     liPoints |-> Append(st.liPoints, liBody(st.x, st.integral))],
                    k - 1)

\* for (let x = ...; x <= maxN; x += dt) { ... } from the loop state st to the
\* exit of the loop, evaluated 32 iterations at a time
RECURSIVE liLoop(_)
liLoop(st) == IF ~fle(st.x, Lit(maxN)) THEN st ELSE liLoop(liLoopUpTo(st, 32))

\* const gammas = [14.13, 21.02, ...]: the literal
gammasLiteral ==
    <<Rat(1413, 100), Rat(2102, 100), Rat(2501, 100), Rat(3042, 100), Rat(3293, 100),
      Rat(3758, 100), Rat(4091, 100), Rat(4332, 100), Rat(4800, 100), Rat(4977, 100)>>

\* const positiveZeroes = [14.135, 21.02, ...] of zeta.ts
positiveZeroes ==
    <<Rat(14135, 1000), Rat(2102, 100), Rat(2501, 100), Rat(3042, 100), Rat(3293, 100),
      Rat(3758, 100), Rat(4091, 100), Rat(4332, 100), Rat(4800, 100), Rat(4977, 100)>>

\* the signed list built without the negation
signedList_noNegation(gs) == gs \o [i \in 1..Len(gs) |-> gs[i]]

\* [...gs, ...gs.map(g => -g)]
signedList(gs) == gs \o [i \in 1..Len(gs) |-> fneg(gs[i])]

\* const knownZeroes = [...positiveZeroes, ...positiveZeroes.map(t => -t)]
knownZeroes == signedList(positiveZeroes)

\* Array.prototype.indexOf: the first index (from 0) that holds v, or -1
indexOf(arr, v) ==
    IF \E i \in 1..Len(arr) : arr[i] = v
    THEN (CHOOSE i \in 1..Len(arr) : arr[i] = v /\ \A j \in 1..(i - 1) : arr[j] # v) - 1
    ELSE -1

\* the z of the wave of gamma: sign * (rank + 1) * 4
zOffset(gs, gamma) ==
    LET rank == indexOf(gs, MathAbs(gamma))
        sign == IF flt(Lit(0), gamma) THEN 1 ELSE -1
    IN  Lit(sign * (rank + 1) * 4)

\* the y of the wave of gamma at x
waveY(x, gamma) ==
    LET amp == fdiv(MathSqrt(x), MathAbs(gamma))
        phase == fmul(gamma, MathLog(x))
    IN  fmul(fneg(amp), MathSin(phase))

\* the term of the explicit sum for the pair of gamma, at x
pairWaveY(x, gamma) ==
    LET amp == fdiv(MathSqrt(x), gamma)
        phase == fmul(gamma, MathLog(x))
    IN  fmul(fmul(Lit(-2), amp), MathSin(phase))

\* the terms the forEach of the explicit sum adds, in the order of gs
pairWaves(gs, x) == [i \in 1..Len(gs) |-> pairWaveY(x, gs[i])]

\* correction after the terms from index i on have been added to acc
RECURSIVE correctionLoop(_, _, _)
correctionLoop(ts, i, acc) ==
    IF i > Len(ts) THEN acc ELSE correctionLoop(ts, i + 1, fadd(acc, ts[i]))

\* const subDt = 0.1
subDt == Rat(1, 10)

\* for (let t = 2; t < x; t += subDt) liVal += (1 / Math.log(t)) * subDt
RECURSIVE liValLoop(_, _, _)
liValLoop(t, x, acc) ==
    IF flt(t, x)
    THEN liValLoop(fadd(t, subDt), x, fadd(acc, fmul(fdiv(Lit(1), MathLog(t)), subDt)))
    ELSE acc

\* the body of the inner loop of the explicit sum: liVal += (1 / Math.log(t)) * subDt
liValBody(t, acc) == fadd(acc, fmul(fdiv(Lit(1), MathLog(t)), subDt))

\* x += 0.2: the step of the loop of a wave and of the loop of the explicit sum
waveStep == Rat(1, 5)

\* a point not computed yet
NoPoint == Vector3(Node("unset", 0, 0, <<>>), Node("unset", 0, 0, <<>>), Node("unset", 0, 0, <<>>))

---------------------------------------------------------------------------
(* zeta *)

\* the series loop body with the parity test n % 2 === 1
seriesBody_parity(sum, k, sArg) ==
    LET n_s == pow(Lit(k), sArg)
        term == inv(n_s)
    IN  IF k % 2 = 1 THEN sub(sum, term) ELSE add(sum, term)

\* one iteration of the series loop: etaSum after the term of index k
seriesBody(sum, k, sArg) ==
    LET n_s == pow(Lit(k), sArg)
        term == inv(n_s)
    IN  IF (k - 1) % 2 = 1 THEN sub(sum, term) ELSE add(sum, term)

\* the denominator with oneMinusS = (1 - s.re, s.im)
zetaDenominator_imKept(sArg) ==
    LET oneMinusS == ComplexNumber(fsub(Lit(1), sArg.re), sArg.im)
        twoPow == pow(Lit(2), oneMinusS)
    IN  sub(ComplexNumber(Lit(1), Lit(0)), twoPow)

\* const denominator = new ComplexNumber(1, 0).sub(twoPow)
zetaDenominator(sArg) ==
    LET oneMinusS == ComplexNumber(fsub(Lit(1), sArg.re), fneg(sArg.im))
        twoPow == pow(Lit(2), oneMinusS)
    IN  sub(ComplexNumber(Lit(1), Lit(0)), twoPow)

\* zeta returning the eta sum itself, without the division
zetaReturn_etaOnly(sum, den) == sum

\* return etaSum.multiply(denominator.inv())
zetaReturn(sum, den) == multiply(sum, inv(den))

\* the default of the parameter `terms`, and the count createZetaCurve passes
defaultTerms == 100
curveTerms == 200

\* the entry of zeta with the term count lost
zetaEntry_noTerms(args) == [s |-> args[1], terms |-> 0]

\* function zeta(s, terms = 100): the parameters of a call with the
\* arguments args, the default taken when the second one is not passed
zetaEntry(args) ==
    [s |-> args[1], terms |-> IF Len(args) >= 2 THEN args[2] ELSE defaultTerms]

\* createZetaCurve(0.5, ...): sigma, and the constants of the function
\* the curve drawn on the line sigma = 1
sigma_one == Lit(1)

sigma == Rat(1, 2)
tStep == Rat(1, 100)
maxT == 60
scale == 8

\* points.push(new Vector3(z.re * scale, t, z.im * scale))
curvePoint(z, t) == Vector3(fmul(z.re, Lit(scale)), t, fmul(z.im, Lit(scale)))

---------------------------------------------------------------------------
(* initZeta: the markers and the curves of the number line *)

\* const primes = [2, 3, 5, 7, 11, 13] of initZeta
tabPrimes == <<2, 3, 5, 7, 11, 13>>

\* const trivialZeros = [-2, -4, -6, -8]
trivialZeros == <<-2, -4, -6, -8>>

\* (re - 0.5) * 8: the world X of the real number re
worldX(re) == fmul(fsub(re, Rat(1, 2)), Lit(8))

\* positions.push(x, y, z)
push3(pos, x, y, z) == pos \o <<x, y, z>>

\* the callback of primes.forEach with the jump pushed before count++
piBody_lateCount(pts, p, cnt) ==
    LET x == worldX(Lit(p))
        lastY == pts[Len(pts)].y
    IN  Append(Append(pts, Vector3(x, lastY, Lit(0))),
               Vector3(x, fmul(Lit(cnt), Lit(2)), Lit(0)))

\* the callback of primes.forEach followed by the segment to the next x
piBody_extended(pts, p, cnt) ==
    LET x == worldX(Lit(p))
        lastY == pts[Len(pts)].y
    IN  Append(Append(Append(pts, Vector3(x, lastY, Lit(0))),
                      Vector3(x, fmul(Lit(cnt + 1), Lit(2)), Lit(0))),
               Vector3(worldX(Lit(p + 2)), fmul(Lit(cnt + 1), Lit(2)), Lit(0)))

\* the callback of primes.forEach for the prime p with `cnt` primes before
\* it: the horizontal point at the last y, count++, the jump to count * 2
piBody(pts, p, cnt) ==
    LET x == worldX(Lit(p))
        lastY == pts[Len(pts)].y
    IN  Append(Append(pts, Vector3(x, lastY, Lit(0))),
               Vector3(x, fmul(Lit(cnt + 1), Lit(2)), Lit(0)))

\* const startX = (2 - 0.5) * 8
startX == worldX(Lit(2))

\* the step of the x / ln(x) loop of initZeta: x += 0.1
approxStep == Rat(1, 10)

\* the upper bound of the curves of initZeta: x <= 13
approxTo == Lit(13)

\* the body of the x / ln(x) loop: the point ((x - 0.5) * 8, x / ln(x) * 2, 0)
approxBody(pts, x) ==
    Append(pts, Vector3(worldX(x), fmul(fdiv(x, MathLog(x)), Lit(2)), Lit(0)))

---------------------------------------------------------------------------
(* main.ts: the scene, the document and the tabs *)

\* an object of the scene: the call of init that added it, what it is, and
\* the class of the label elements it carries ("none" if it carries none)
SceneObject(owner, kind, cls) == [owner |-> owner, kind |-> kind, cls |-> cls]

\* the scene.add calls of initPrimes, in order: the grids and axes, the
\* labels of the primes, the points, the tick labels, the curves, and the
\* group of the waves with its labels
primesObjects(owner) ==
    <<SceneObject(owner, "grids", "none"), SceneObject(owner, "primeLabels", "prime-label"),
      SceneObject(owner, "primePoints", "none"), SceneObject(owner, "tickLabels", "label"),
      SceneObject(owner, "curves", "none"), SceneObject(owner, "waveGroup", "label")>>

\* the scene.add calls of initZeta: the lines of the strip, the curve of
\* zeta, the labels, the markers, the curves of the number line, the grids
zetaObjects(owner) ==
    <<SceneObject(owner, "strip", "none"), SceneObject(owner, "zetaValueCurve", "none"),
      SceneObject(owner, "labels", "label"), SceneObject(owner, "markers", "none"),
      SceneObject(owner, "curves", "none"), SceneObject(owner, "grids", "none")>>

\* what init(scene, ...) of the tab adds to the scene
initObjects(tab, owner) == IF tab = "primes" THEN primesObjects(owner) ELSE zetaObjects(owner)

\* a label element of the document: the call of init that created it, its class
LabelEl(owner, cls) == [owner |-> owner, cls |-> cls]

\* the elements labelRenderer.render attaches for the labels of the scene
renderedLabels(children) ==
    {LabelEl(children[i].owner, children[i].cls) :
        i \in {j \in 1..Len(children) : children[j].cls # "none"}}

\* document.querySelectorAll of the cleanup the tab's init returns
cleanupSelector(tab) == IF tab = "primes" THEN {"prime-label", "label"} ELSE {"label"}

\* document.querySelectorAll('.label, .prime-label') of switchTab
switchSelector == {"label", "prime-label"}

\* elements.forEach(e => e.remove()) for the elements of the classes
removeAll(els, classes) == {e \in els : e.cls \notin classes}

\* a cleanup that leaves its legend in the document
runCleanup_keepLegend(tab, owner, els, lgs) ==
    [labelEls |-> removeAll(els, cleanupSelector(tab)), legends |-> lgs]

\* the cleanup returned by the init of call `owner` of the tab: the labels
\* of its selector are removed, and its own legend
runCleanup(tab, owner, els, lgs) ==
    [labelEls |-> removeAll(els, cleanupSelector(tab)), legends |-> lgs \ {owner}]

---------------------------------------------------------------------------
(* Bounds of the model *)

MaxComp == 2      \* operands of the complex operations have components in -MaxComp..MaxComp
MaxChain == 1     \* how many results are passed on as the next argument
MaxBase == 3      \* pow is applied to the bases 1..MaxBase
MaxNum == 1000    \* isPrime is called on 0..MaxNum
MaxTerms == 4     \* zeta is called with 1..MaxTerms terms
MaxRe == 2        \* and with Re(s) in -MaxRe..MaxRe,
MaxIm == 1        \* Im(s) in -MaxIm..MaxIm, or with an s left open
MaxCurve == 2     \* createZetaCurve: the first MaxCurve samples of t
MaxSample == 5    \* waves and explicit sum: the samples x = 2 + k/5, k in 0..MaxSample
MaxSwitch == 4    \* main.ts: the calls of switchTab in a session
MaxLast == 1      \* explicit sum: the loop is run from one of its last 1 + MaxLast iterations

---------------------------------------------------------------------------
(* The parts at rest: each specification below runs one part and leaves
   the others as they are here. *)

cxIdle == opA = Zero /\ opB = Zero /\ opName = "idle" /\ opRes = Unset /\ chained = 0
ipIdle == num = 0 /\ verdict = "idle"
prIdle ==
    /\ scanI = 0 /\ primes = <<>> /\ stepI = 0
    /\ stepPoints = <<>> /\ count = 0 /\ prPc = "idle"
ztIdle ==
    /\ s = Zero /\ terms = 0 /\ n = 0 /\ etaSum = Unset
    /\ denominator = Unset /\ zetaRes = Unset /\ zPc = "idle"

liIdle == liX = Lit(0) /\ integral = Lit(0) /\ liPoints = <<>> /\ liPc = "idle"

cvIdle == cvT = Lit(0) /\ cvPoints = <<>> /\ cvPc = "idle"

tbIdle ==
    /\ zeroPositions = <<>> /\ trivialPos = <<>> /\ primePos = <<>>
    /\ piPoints = <<>> /\ piCount = 0 /\ approxX = Lit(0) /\ approxPoints = <<>>
    /\ tabI = 0 /\ tabPc = "idle"

swIdle ==
    /\ cleanupCurrentScene = 0 /\ sceneChildren = <<>> /\ legends = {} /\ labelEls = {}
    /\ callTab = <<>> /\ invoked = <<>> /\ swPc = "off"

lpIdle == trialI = 0 /\ trialPc = "idle" /\ sumT = Lit(0) /\ wsPc = "idle"

wvIdle ==
    /\ gammas = <<>> /\ allGammas = <<>> /\ wvGamma = Lit(0) /\ wvX = Lit(0)
    /\ wavePoint = NoPoint /\ liVal = Lit(0) /\ pairTerms = <<>>
    /\ correction = Lit(0) /\ sumPoint = NoPoint

---------------------------------------------------------------------------
(* ComplexNumber: the operations applied to operands a and b *)

Operands ==
    {ComplexNumber(Lit(x), Lit(y)) : x \in -MaxComp..MaxComp, y \in -MaxComp..MaxComp}

InitComplex ==
    /\ opA \in Operands /\ opB \in Operands
    /\ opName = "none" /\ opRes = Unset /\ chained = 0
    /\ ipIdle /\ prIdle /\ ztIdle /\ liIdle /\ wvIdle /\ cvIdle /\ tbIdle /\ swIdle /\ lpIdle

\* add that stores the sum in its receiver: this.re += c.re; this.im += c.im
Add_inPlace ==
    /\ opName = "none"
    /\ opName' = "add" /\ opRes' = add(opA, opB) /\ opA' = add(opA, opB)
    /\ UNCHANGED <<opB, chained, ipVars, prVars, ztVars, liVars, wvVars, cvVars, tbVars, swVars, lpVars>>

\* a.add(b)
Add ==
    /\ opName = "none"
    /\ opName' = "add" /\ opRes' = add(opA, opB)
    /\ UNCHANGED <<opA, opB, chained, ipVars, prVars, ztVars, liVars, wvVars, cvVars, tbVars, swVars, lpVars>>

\* a.sub(b)
Sub ==
    /\ opName = "none"
    /\ opName' = "sub" /\ opRes' = sub(opA, opB)
    /\ UNCHANGED <<opA, opB, chained, ipVars, prVars, ztVars, liVars, wvVars, cvVars, tbVars, swVars, lpVars>>

\* a.multiply(b)
Multiply ==
    /\ opName = "none"
    /\ opName' = "multiply" /\ opRes' = multiply(opA, opB)
    /\ UNCHANGED <<opA, opB, chained, ipVars, prVars, ztVars, liVars, wvVars, cvVars, tbVars, swVars, lpVars>>

\* a.inv()
Inv ==
    /\ opName = "none"
    /\ opName' = "inv" /\ opRes' = inv(opA)
    /\ UNCHANGED <<opA, opB, chained, ipVars, prVars, ztVars, liVars, wvVars, cvVars, tbVars, swVars, lpVars>>

\* ComplexNumber.pow(base, a)
Pow ==
    /\ opName = "none"
    /\ \E base \in 1..MaxBase : opRes' = pow(Lit(base), opA)
    /\ opName' = "pow"
    /\ UNCHANGED <<opA, opB, chained, ipVars, prVars, ztVars, liVars, wvVars, cvVars, tbVars, swVars, lpVars>>

\* the caller passes the value an operation returned as the next argument b
Chain ==
    /\ opName \in {"add", "sub", "multiply", "inv"} /\ chained < MaxChain
    /\ opB' = opRes /\ chained' = chained + 1
    /\ opName' = "none" /\ opRes' = Unset
    /\ UNCHANGED <<opA, ipVars, prVars, ztVars, liVars, wvVars, cvVars, tbVars, swVars, lpVars>>

NextComplex == Add \/ Sub \/ Multiply \/ Inv \/ Pow \/ Chain

SpecComplex == InitComplex /\ [][NextComplex]_vars

---------------------------------------------------------------------------
(* isPrime: one call *)

InitIsPrime ==
    /\ num \in 0..MaxNum /\ verdict = "none"
    /\ cxIdle /\ prIdle /\ ztIdle /\ liIdle /\ wvIdle /\ cvIdle /\ tbIdle /\ swIdle /\ lpIdle

CallIsPrime ==
    /\ verdict = "none"
    /\ verdict' = IF isPrime(num) THEN "true" ELSE "false"
    /\ UNCHANGED <<num, cxVars, prVars, ztVars, liVars, wvVars, cvVars, tbVars, swVars, lpVars>>

NextIsPrime == CallIsPrime

SpecIsPrime == InitIsPrime /\ [][NextIsPrime]_vars

---------------------------------------------------------------------------
(* initPrimes: the prime scan, the pi(x) step sequence, then the Li(x) curve *)

InitPrimes ==
    /\ scanI = 0 /\ primes = <<>> /\ stepI = 0
    /\ stepPoints = <<>> /\ count = 0 /\ prPc = "scan"
    /\ cxIdle /\ ipIdle /\ ztIdle /\ liIdle /\ wvIdle /\ cvIdle /\ tbIdle /\ swIdle /\ lpIdle

\* for (let i = 0; i <= maxN; i++) if (isPrime(i)) primes.push(i)
ScanStep ==
    /\ prPc = "scan" /\ scanI <= maxN
    /\ primes' = scanBody(primes, scanI)
    /\ scanI' = scanI + 1
    /\ UNCHANGED <<stepI, stepPoints, count, prPc, cxVars, ipVars, ztVars, liVars, wvVars, cvVars, tbVars, swVars, lpVars>>

\* the scan is over; stepPoints.push(new Vector3(0, 0, 0)); let count = 0
StepStart ==
    /\ prPc = "scan" /\ ~(scanI <= maxN)
    /\ stepPoints' = <<Vector3(0, 0, 0)>>
    /\ count' = 0 /\ stepI' = 0 /\ prPc' = "steps"
    /\ UNCHANGED <<scanI, primes, cxVars, ipVars, ztVars, liVars, wvVars, cvVars, tbVars, swVars, lpVars>>

\* for (let i = 0; i < primes.length; i++) { ... count++; ... }
StepPrime ==
    /\ prPc = "steps" /\ stepI < Len(primes)
    /\ stepPoints' = stepBody(stepPoints, primes[stepI + 1], count)
    /\ count' = count + 1
    /\ stepI' = stepI + 1
    /\ UNCHANGED <<scanI, primes, prPc, cxVars, ipVars, ztVars, liVars, wvVars, cvVars, tbVars, swVars, lpVars>>

\* stepPoints.push(new Vector3(maxN, count, 0))
StepFinish ==
    /\ prPc = "steps" /\ ~(stepI < Len(primes))
    /\ stepPoints' = stepFinish(stepPoints, count)
    /\ prPc' = "done"
    /\ UNCHANGED <<scanI, primes, stepI, count, cxVars, ipVars, ztVars, liVars, wvVars, cvVars, tbVars, swVars, lpVars>>

\* the control of the Li(x) curve: it is drawn once, after the step sequence
LiControl ==
    /\ prPc = "done" /\ liPc = "idle"
    /\ liPc' = "done"

\* the Li(x) curve, a midpoint sum of 1/ln(t) from 2 in steps of dt:
\* let integral = 0; liPoints.push(new Vector3(2, 0, 0)); for (let x = 2; ...
\* The loop variable is 2 + k/10 exactly; the rounding of the repeated
\* x += 0.1 is not modelled.
LiCurve ==
    /\ LiControl
    /\ LET exit == liLoop([x |-> Lit(2), integral |-> Lit(0),
                           liPoints |-> <<Vector3(Lit(2), Lit(0), Lit(0))>>])
       IN  /\ liX' = exit.x
           /\ integral' = exit.integral
           /\ liPoints' = exit.liPoints
    /\ UNCHANGED <<prVars, cxVars, ipVars, ztVars, wvVars, cvVars, tbVars, swVars, lpVars>>

NextPrimes == ScanStep \/ StepStart \/ StepPrime \/ StepFinish \/ LiCurve

SpecPrimes == InitPrimes /\ [][NextPrimes]_vars

---------------------------------------------------------------------------
(* zeta(s, terms): one call *)

SArgs ==
    {ComplexNumber(Lit(x), Lit(y)) : x \in -MaxRe..MaxRe, y \in -MaxIm..MaxIm}
      \cup {ComplexNumber(Sym(1), Sym(2)), ComplexNumber(Rat(1, 2), Sym(2))}

\* the entry of zeta with the loop started at n = 0
InitZeta_fromZero ==
    /\ s \in SArgs /\ terms \in 1..MaxTerms
    /\ n = 0 /\ etaSum = ComplexNumber(Lit(0), Lit(0))
    /\ denominator = Unset /\ zetaRes = Unset /\ zPc = "loop"
    /\ cxIdle /\ ipIdle /\ prIdle /\ liIdle /\ wvIdle /\ cvIdle /\ tbIdle /\ swIdle /\ lpIdle

\* let etaSum = new ComplexNumber(0, 0); for (let n = 1; ...
InitZeta ==
    /\ s \in SArgs /\ terms \in 1..MaxTerms
    /\ n = 1 /\ etaSum = ComplexNumber(Lit(0), Lit(0))
    /\ denominator = Unset /\ zetaRes = Unset /\ zPc = "loop"
    /\ cxIdle /\ ipIdle /\ prIdle /\ liIdle /\ wvIdle /\ cvIdle /\ tbIdle /\ swIdle /\ lpIdle

\* the control of zeta: while n <= terms the loop goes on with n++, then the
\* continuation runs to the return
ZetaControl ==
    /\ zPc = "loop"
    /\ \/ n <= terms /\ n' = n + 1 /\ zPc' = zPc
       \/ ~(n <= terms) /\ n' = n /\ zPc' = "done"

\* for (let n = 1; n <= terms; n++) { ... }
ZetaTerm ==
    /\ n <= terms /\ ZetaControl
    /\ etaSum' = seriesBody(etaSum, n, s)
    /\ UNCHANGED <<s, terms, denominator, zetaRes, cxVars, ipVars, prVars, liVars, wvVars, cvVars, tbVars, swVars, lpVars>>

\* the continuation: the denominator 1 - 2^(1-s) and the value returned
ZetaReturn ==
    /\ ~(n <= terms) /\ ZetaControl
    /\ denominator' = zetaDenominator(s)
    /\ zetaRes' = zetaReturn(etaSum, zetaDenominator(s))
    /\ UNCHANGED <<s, terms, etaSum, cxVars, ipVars, prVars, liVars, wvVars, cvVars, tbVars, swVars, lpVars>>

NextZeta == ZetaTerm \/ ZetaReturn

SpecZeta == InitZeta /\ [][NextZeta]_vars

---------------------------------------------------------------------------
(* The arithmetic: a use of the ComplexNumber operations, or a call of zeta *)

InitArithmetic == InitComplex \/ InitZeta

NextArithmetic == NextComplex \/ NextZeta

SpecArithmetic == InitArithmetic /\ [][NextArithmetic]_vars

---------------------------------------------------------------------------
(* zeta((2, 0), 200): the call at s = 2 with the term count of the curve.
   Every n^s is the integer n^2; the sum of the 1/n^2 leaves the exact
   rationals after a few terms and goes on as an enclosure. *)

InitZetaAtTwo ==
    /\ s = ComplexNumber(Lit(2), Lit(0)) /\ terms = curveTerms
    /\ n = 1 /\ etaSum = ComplexNumber(Lit(0), Lit(0))
    /\ denominator = Unset /\ zetaRes = Unset /\ zPc = "loop"
    /\ cxIdle /\ ipIdle /\ prIdle /\ liIdle /\ wvIdle /\ cvIdle /\ tbIdle /\ swIdle /\ lpIdle

SpecZetaAtTwo == InitZetaAtTwo /\ [][NextZeta]_vars

---------------------------------------------------------------------------
(* createZetaCurve(0.5, ...): the loop over t from -maxT, each iteration a
   call zeta(s, 200) at s = (sigma, t).  The model runs the first MaxCurve
   iterations; t is -60 + k/100 exactly. *)

\* const points = []; for (let t = -maxT; ...
InitCurve ==
    /\ cvT = fneg(Lit(maxT)) /\ cvPoints = <<>> /\ cvPc = "loop"
    /\ cxIdle /\ ipIdle /\ prIdle /\ ztIdle /\ liIdle /\ wvIdle /\ tbIdle /\ swIdle /\ lpIdle

\* the call of zeta entered with its loop started at n = 0
CurveCall_fromZero ==
    /\ cvPc = "loop" /\ zPc = "idle"
    /\ fle(cvT, Lit(maxT)) /\ Len(cvPoints) < MaxCurve
    /\ LET entry == zetaEntry(<<ComplexNumber(sigma, cvT), curveTerms>>)
       IN  s' = entry.s /\ terms' = entry.terms
    /\ n' = 0 /\ etaSum' = ComplexNumber(Lit(0), Lit(0))
    /\ denominator' = Unset /\ zetaRes' = Unset /\ zPc' = "loop"
    /\ UNCHANGED <<cvVars, cxVars, ipVars, prVars, liVars, wvVars, tbVars, swVars, lpVars>>

\* const s = new ComplexNumber(sigma, t); zeta(s, 200): the call is entered
CurveCall ==
    /\ cvPc = "loop" /\ zPc = "idle"
    /\ fle(cvT, Lit(maxT)) /\ Len(cvPoints) < MaxCurve
    /\ LET entry == zetaEntry(<<ComplexNumber(sigma, cvT), curveTerms>>)
       IN  s' = entry.s /\ terms' = entry.terms
    /\ n' = 1 /\ etaSum' = ComplexNumber(Lit(0), Lit(0))
    /\ denominator' = Unset /\ zetaRes' = Unset /\ zPc' = "loop"
    /\ UNCHANGED <<cvVars, cxVars, ipVars, prVars, liVars, wvVars, tbVars, swVars, lpVars>>

\* zeta has returned z: points.push(...); t += tStep
CurvePush ==
    /\ cvPc = "loop" /\ zPc = "done"
    /\ cvPoints' = Append(cvPoints, curvePoint(zetaRes, cvT))
    /\ cvT' = fadd(cvT, tStep)
    /\ s' = Zero /\ terms' = 0 /\ n' = 0 /\ etaSum' = Unset
    /\ denominator' = Unset /\ zetaRes' = Unset /\ zPc' = "idle"
    /\ UNCHANGED <<cvPc, cxVars, ipVars, prVars, liVars, wvVars, tbVars, swVars, lpVars>>

NextCurve == CurveCall \/ ZetaTerm \/ ZetaReturn \/ CurvePush

SpecCurve == InitCurve /\ [][NextCurve]_vars

---------------------------------------------------------------------------
(* zeta on the critical line: the calls of createZetaCurve(0.5, ...), and a
   call zeta(s, terms) at s = (sigma, t) for a t that is left open, which
   stands for the call at any sample t. *)

InitOnLine ==
    /\ s = ComplexNumber(sigma, Sym(2)) /\ terms \in 1..MaxTerms
    /\ n = 1 /\ etaSum = ComplexNumber(Lit(0), Lit(0))
    /\ denominator = Unset /\ zetaRes = Unset /\ zPc = "loop"
    /\ cxIdle /\ ipIdle /\ prIdle /\ liIdle /\ wvIdle /\ cvIdle /\ tbIdle /\ swIdle /\ lpIdle

InitCriticalLine == InitCurve \/ InitOnLine

SpecCriticalLine == InitCriticalLine /\ [][NextCurve]_vars

---------------------------------------------------------------------------
(* initPrimes: one wave and the explicit-sum curve at a sample x.  The two
   loops over x visit x = 2 + k/5; the model takes one of the first samples
   and one gamma of the forEach, and computes the point of the wave of that
   gamma and the point of the explicit-sum curve at that x.  The rounding of
   the repeated x += 0.2 is not modelled. *)

Samples == {fadd(Lit(2), fmul(Lit(k), Rat(1, 5))) : k \in 0..MaxSample}

InitWave ==
    /\ gammas = gammasLiteral /\ allGammas = signedList(gammasLiteral)
    /\ wvGamma \in {signedList(gammasLiteral)[i] : i \in 1..Len(signedList(gammasLiteral))}
    /\ wvX \in {x \in Samples : fle(x, Lit(maxN))}
    /\ wavePoint = NoPoint /\ liVal = Lit(0) /\ pairTerms = <<>>
    /\ correction = Lit(0) /\ sumPoint = NoPoint
    /\ cxIdle /\ ipIdle /\ prIdle /\ ztIdle /\ liIdle /\ cvIdle /\ tbIdle /\ swIdle /\ lpIdle

\* wavePoints.push(new Vector3(x, waveY, zOffset)) in the callback of gamma
WaveSample ==
    /\ gammas # <<>> /\ wavePoint = NoPoint
    /\ wavePoint' = Vector3(wvX, waveY(wvX, wvGamma), zOffset(gammas, wvGamma))
    /\ UNCHANGED <<gammas, allGammas, wvGamma, wvX, liVal, pairTerms, correction, sumPoint>>
    /\ UNCHANGED <<cxVars, ipVars, prVars, ztVars, liVars, cvVars, tbVars, swVars, lpVars>>

\* the body of the explicit-sum loop at x: liVal, correction, the point pushed
SumSample ==
    /\ gammas # <<>> /\ sumPoint = NoPoint
    /\ liVal' = liValLoop(Lit(2), wvX, Lit(0))
    /\ pairTerms' = pairWaves(gammas, wvX)
    /\ correction' = correctionLoop(pairWaves(gammas, wvX), 1, Lit(0))
    /\ sumPoint' = Vector3(wvX,
                           fadd(liValLoop(Lit(2), wvX, Lit(0)),
                                correctionLoop(pairWaves(gammas, wvX), 1, Lit(0))),
                           Lit(0))
    /\ UNCHANGED <<gammas, allGammas, wvGamma, wvX, wavePoint>>
    /\ UNCHANGED <<cxVars, ipVars, prVars, ztVars, liVars, cvVars, tbVars, swVars, lpVars>>

NextWave == WaveSample \/ SumSample

SpecWave == InitWave /\ [][NextWave]_vars

---------------------------------------------------------------------------
(* initZeta: the zero markers, the prime markers with the pi(x) step
   sequence, then the x / ln(x) curve.  The loop variable of the curve is
   2 + k/10 exactly; the rounding of the repeated x += 0.1 is not modelled. *)

InitZetaTab ==
    /\ zeroPositions = <<>> /\ trivialPos = <<>> /\ primePos = <<>>
    /\ piPoints = <<>> /\ piCount = 0 /\ approxX = Lit(0) /\ approxPoints = <<>>
    /\ tabI = 0 /\ tabPc = "zeros"
    /\ cxIdle /\ ipIdle /\ prIdle /\ ztIdle /\ liIdle /\ wvIdle /\ cvIdle /\ swIdle /\ lpIdle

\* knownZeroes.forEach(t => { zeroPositions.push(0, t, 0); ... })
MarkZero ==
    /\ tabPc = "zeros" /\ tabI < Len(knownZeroes)
    /\ zeroPositions' = push3(zeroPositions, Lit(0), knownZeroes[tabI + 1], Lit(0))
    /\ tabI' = tabI + 1
    /\ UNCHANGED <<trivialPos, primePos, piPoints, piCount, approxX, approxPoints, tabPc>>
    /\ UNCHANGED <<cxVars, ipVars, prVars, ztVars, liVars, wvVars, cvVars, swVars, lpVars>>

\* trivialZeros.forEach(re => { const x = (re - 0.5) * 8; trivialPos.push(x, 0, 0); ... })
MarkTrivial ==
    /\ \/ tabPc = "zeros" /\ ~(tabI < Len(knownZeroes)) /\ tabI' = 1
       \/ tabPc = "trivial" /\ tabI < Len(trivialZeros) /\ tabI' = tabI + 1
    /\ trivialPos' = push3(trivialPos, worldX(Lit(trivialZeros[tabI' ])), Lit(0), Lit(0))
    /\ tabPc' = "trivial"
    /\ UNCHANGED <<zeroPositions, primePos, piPoints, piCount, approxX, approxPoints>>
    /\ UNCHANGED <<cxVars, ipVars, prVars, ztVars, liVars, wvVars, cvVars, swVars, lpVars>>

\* piPoints.push(new Vector3(0, 0, 0)); let count = 0
PiStart ==
    /\ tabPc = "trivial" /\ ~(tabI < Len(trivialZeros))
    /\ piPoints' = <<Vector3(Lit(0), Lit(0), Lit(0))>>
    /\ piCount' = 0 /\ tabI' = 0 /\ tabPc' = "primes"
    /\ UNCHANGED <<zeroPositions, trivialPos, primePos, approxX, approxPoints>>
    /\ UNCHANGED <<cxVars, ipVars, prVars, ztVars, liVars, wvVars, cvVars, swVars, lpVars>>

\* primes.forEach(p => { primePos.push(x, 0, 0); ...; count++; ... })
PiPrime ==
    /\ tabPc = "primes" /\ tabI < Len(tabPrimes)
    /\ primePos' = push3(primePos, worldX(Lit(tabPrimes[tabI + 1])), Lit(0), Lit(0))
    /\ piPoints' = piBody(piPoints, tabPrimes[tabI + 1], piCount)
    /\ piCount' = piCount + 1
    /\ tabI' = tabI + 1
    /\ UNCHANGED <<zeroPositions, trivialPos, approxX, approxPoints, tabPc>>
    /\ UNCHANGED <<cxVars, ipVars, prVars, ztVars, liVars, wvVars, cvVars, swVars, lpVars>>

\* approxPoints.push(new Vector3(startX, 2 / Math.log(2) * 2, 0)); let x = 2
ApproxStart ==
    /\ tabPc = "primes" /\ ~(tabI < Len(tabPrimes))
    /\ approxPoints' =
          <<Vector3(startX, fmul(fdiv(Lit(2), MathLog(Lit(2))), Lit(2)), Lit(0))>>
    /\ approxX' = Lit(2) /\ tabPc' = "approx"
    /\ UNCHANGED <<zeroPositions, trivialPos, primePos, piPoints, piCount, tabI>>
    /\ UNCHANGED <<cxVars, ipVars, prVars, ztVars, liVars, wvVars, cvVars, swVars, lpVars>>

\* for (let x = 2; x <= 13; x += 0.1) { approxPoints.push(...) }
ApproxSample ==
    /\ tabPc = "approx" /\ fle(approxX, approxTo)
    /\ approxPoints' = approxBody(approxPoints, approxX)
    /\ approxX' = fadd(approxX, approxStep)
    /\ UNCHANGED <<zeroPositions, trivialPos, primePos, piPoints, piCount, tabI, tabPc>>
    /\ UNCHANGED <<cxVars, ipVars, prVars, ztVars, liVars, wvVars, cvVars, swVars, lpVars>>

\* the loop is over: x <= 13 fails
ApproxExit ==
    /\ tabPc = "approx" /\ ~fle(approxX, approxTo)
    /\ tabPc' = "done"
    /\ UNCHANGED <<zeroPositions, trivialPos, primePos, piPoints, piCount, approxX,
                   approxPoints, tabI>>
    /\ UNCHANGED <<cxVars, ipVars, prVars, ztVars, liVars, wvVars, cvVars, swVars, lpVars>>

NextZetaTab ==
    MarkZero \/ MarkTrivial \/ PiStart \/ PiPrime \/ ApproxStart \/ ApproxSample \/ ApproxExit

SpecZetaTab == InitZetaTab /\ [][NextZetaTab]_vars

---------------------------------------------------------------------------
(* main.ts: the page.  The module is loaded, the frame loop is started,
   switchTab('primes') is called, and then every click of a tab button calls
   switchTab.  A call of switchTab runs to its end before the next event is
   served; frames are rendered between the calls.  Call k of switchTab is
   callTab[k], the cleanup its init returns is written k, and invoked[k]
   counts the calls of that cleanup. *)

otherVars == <<cxVars, ipVars, prVars, ztVars, liVars, wvVars, cvVars, tbVars, lpVars>>

\* let cleanupCurrentScene = null; ...; animate()
InitMain ==
    /\ cleanupCurrentScene = 0 /\ sceneChildren = <<>> /\ legends = {} /\ labelEls = {}
    /\ callTab = <<>> /\ invoked = <<>> /\ swPc = "start"
    /\ cxIdle /\ ipIdle /\ prIdle /\ ztIdle /\ liIdle /\ wvIdle /\ cvIdle /\ tbIdle /\ lpIdle

\* switchTab(tab) is entered
Enter(tab) ==
    /\ callTab' = Append(callTab, tab)
    /\ invoked' = Append(invoked, 0)
    /\ swPc' = "cleanup"
    /\ UNCHANGED <<cleanupCurrentScene, sceneChildren, legends, labelEls, otherVars>>

\* // Start: switchTab('primes')
Startup == swPc = "start" /\ Enter("primes")

\* btn.onclick = () => switchTab(tabName)
Click ==
    /\ swPc = "idle" /\ Len(callTab) < MaxSwitch
    /\ \E tabName \in {"primes", "zeta"} : Enter(tabName)

\* the frame loop: labelRenderer.render(scene, camera) puts the elements of
\* the labels of the scene into the document
Render ==
    /\ swPc = "idle"
    /\ labelEls' = labelEls \cup renderedLabels(sceneChildren)
    /\ UNCHANGED <<cleanupCurrentScene, sceneChildren, legends, callTab, invoked, swPc,
                   otherVars>>

\* the test if (cleanupCurrentScene) fails
SwitchNoCleanup_always ==
    /\ swPc = "cleanup"
    /\ swPc' = "clear"
    /\ UNCHANGED <<cleanupCurrentScene, sceneChildren, legends, labelEls, callTab, invoked,
                   otherVars>>

\* if (cleanupCurrentScene) fails: nothing to clean up
SwitchNoCleanup ==
    /\ swPc = "cleanup" /\ cleanupCurrentScene = 0
    /\ swPc' = "clear"
    /\ UNCHANGED <<cleanupCurrentScene, sceneChildren, legends, labelEls, callTab, invoked,
                   otherVars>>

\* if (cleanupCurrentScene) { cleanupCurrentScene(); ...
SwitchCleanup ==
    /\ swPc = "cleanup" /\ cleanupCurrentScene # 0
    /\ LET k == cleanupCurrentScene
           after == runCleanup(callTab[k], k, labelEls, legends)
       IN  /\ labelEls' = after.labelEls
           /\ legends' = after.legends
           /\ invoked' = [invoked EXCEPT ![k] = @ + 1]
    /\ swPc' = "reset"
    /\ UNCHANGED <<cleanupCurrentScene, sceneChildren, callTab, otherVars>>

\* ... cleanupCurrentScene = null; }
SwitchReset ==
    /\ swPc = "reset"
    /\ cleanupCurrentScene' = 0
    /\ swPc' = "clear"
    /\ UNCHANGED <<sceneChildren, legends, labelEls, callTab, invoked, otherVars>>

\* while (scene.children.length > 0) { scene.remove(scene.children[0]); }
\* The element of a removed label is left to the two lines that follow.
SwitchRemoveChild ==
    /\ swPc = "clear" /\ Len(sceneChildren) > 0
    /\ sceneChildren' = Tail(sceneChildren)
    /\ UNCHANGED <<cleanupCurrentScene, legends, labelEls, callTab, invoked, swPc, otherVars>>

\* document.querySelectorAll('.label, .prime-label').forEach(el => el.remove())
SwitchRemoveLabels ==
    /\ swPc = "clear" /\ ~(Len(sceneChildren) > 0)
    /\ labelEls' = removeAll(labelEls, switchSelector)
    /\ swPc' = "init"
    /\ UNCHANGED <<cleanupCurrentScene, sceneChildren, legends, callTab, invoked, otherVars>>

\* cleanupCurrentScene = initPrimes(scene, ...) or initZeta(scene, ...): the
\* init adds its objects to the scene and its legend to the document, and
\* returns its cleanup
SwitchInit ==
    /\ swPc = "init"
    /\ LET k == Len(callTab)
       IN  /\ sceneChildren' = sceneChildren \o initObjects(callTab[k], k)
           /\ legends' = legends \cup {k}
           /\ cleanupCurrentScene' = k
    /\ swPc' = "idle"
    /\ UNCHANGED <<labelEls, callTab, invoked, otherVars>>

NextMain ==
    \/ Startup \/ Click \/ Render
    \/ SwitchNoCleanup \/ SwitchCleanup \/ SwitchReset
    \/ SwitchRemoveChild \/ SwitchRemoveLabels \/ SwitchInit

SpecMain == InitMain /\ [][NextMain]_vars

---------------------------------------------------------------------------
(* isPrime(num), statement by statement *)

InitIsPrimeLoop ==
    /\ num \in 0..MaxNum /\ verdict = "none"
    /\ trialI = 0 /\ trialPc = "entry" /\ sumT = Lit(0) /\ wsPc = "idle"
    /\ cxIdle /\ prIdle /\ ztIdle /\ liIdle /\ wvIdle /\ cvIdle /\ tbIdle /\ swIdle

\* if (num < 2) return false
IsPrimeSmall ==
    /\ trialPc = "entry" /\ num < 2
    /\ verdict' = "false" /\ trialPc' = "done"
    /\ UNCHANGED <<num, trialI, sumT, wsPc>>
    /\ UNCHANGED <<cxVars, prVars, ztVars, liVars, wvVars, cvVars, tbVars, swVars>>

\* for (let i = 2; ...
IsPrimeEnter ==
    /\ trialPc = "entry" /\ ~(num < 2)
    /\ trialI' = 2 /\ trialPc' = "loop"
    /\ UNCHANGED <<num, verdict, sumT, wsPc>>
    /\ UNCHANGED <<cxVars, prVars, ztVars, liVars, wvVars, cvVars, tbVars, swVars>>

\* an iteration of the loop of isPrime without i++
IsPrimeIter_noIncrement ==
    /\ trialPc = "loop" /\ trialI * trialI <= num /\ num % trialI # 0
    /\ trialI' = trialI
    /\ UNCHANGED <<num, verdict, trialPc, sumT, wsPc>>
    /\ UNCHANGED <<cxVars, prVars, ztVars, liVars, wvVars, cvVars, tbVars, swVars>>

\* i <= Math.sqrt(num) holds and num % i === 0 does not: i++.  For the
\* integers of the model i <= Math.sqrt(num) is i * i <= num.
IsPrimeIter ==
    /\ trialPc = "loop" /\ trialI * trialI <= num /\ num % trialI # 0
    /\ trialI' = trialI + 1
    /\ UNCHANGED <<num, verdict, trialPc, sumT, wsPc>>
    /\ UNCHANGED <<cxVars, prVars, ztVars, liVars, wvVars, cvVars, tbVars, swVars>>

\* i <= Math.sqrt(num) holds: if (num % i === 0) return false
IsPrimeDivisor ==
    /\ trialPc = "loop" /\ trialI * trialI <= num /\ num % trialI = 0
    /\ verdict' = "false" /\ trialPc' = "done"
    /\ UNCHANGED <<num, trialI, sumT, wsPc>>
    /\ UNCHANGED <<cxVars, prVars, ztVars, liVars, wvVars, cvVars, tbVars, swVars>>

\* i <= Math.sqrt(num) fails: return true
IsPrimeExit ==
    /\ trialPc = "loop" /\ ~(trialI * trialI <= num)
    /\ verdict' = "true" /\ trialPc' = "done"
    /\ UNCHANGED <<num, trialI, sumT, wsPc>>
    /\ UNCHANGED <<cxVars, prVars, ztVars, liVars, wvVars, cvVars, tbVars, swVars>>

NextIsPrimeLoop == IsPrimeSmall \/ IsPrimeEnter \/ IsPrimeIter \/ IsPrimeDivisor \/ IsPrimeExit

---------------------------------------------------------------------------
(* initPrimes: the loop over x of one wave, run from x = 2 to its exit, and
   the loop over x of the explicit sum with its inner loop over t, run from
   one of its last iterations to its exit (an iteration at x runs the inner
   loop (x - 2) / subDt times).  x is 2 + k/5 and t is 2 + k/10 exactly; the
   rounding of the repeated additions is not modelled. *)

\* the x of the last iterations of the loop of the explicit sum
LastSamples == {fsub(Lit(maxN), fmul(Lit(k), waveStep)) : k \in 0..MaxLast}

\* allGammas.forEach((gamma) => { ...; for (let x = 2; ...
InitWaveLoop ==
    /\ gammas = gammasLiteral /\ allGammas = signedList(gammasLiteral)
    /\ wvGamma \in {signedList(gammasLiteral)[i] : i \in 1..Len(signedList(gammasLiteral))}
    /\ wvX = Lit(2) /\ wsPc = "wave"
    /\ wavePoint = NoPoint /\ liVal = Lit(0) /\ pairTerms = <<>>
    /\ correction = Lit(0) /\ sumPoint = NoPoint
    /\ trialI = 0 /\ trialPc = "idle" /\ sumT = Lit(0)
    /\ cxIdle /\ ipIdle /\ prIdle /\ ztIdle /\ liIdle /\ cvIdle /\ tbIdle /\ swIdle

\* the loop of the explicit sum about to test x <= maxN, at one of its last x
InitSumLoop ==
    /\ gammas = gammasLiteral /\ allGammas = signedList(gammasLiteral)
    /\ wvGamma = Lit(0)
    /\ wvX \in LastSamples /\ wsPc = "sum"
    /\ wavePoint = NoPoint /\ liVal = Lit(0) /\ pairTerms = <<>>
    /\ correction = Lit(0) /\ sumPoint = NoPoint
    /\ trialI = 0 /\ trialPc = "idle" /\ sumT = Lit(0)
    /\ cxIdle /\ ipIdle /\ prIdle /\ ztIdle /\ liIdle /\ cvIdle /\ tbIdle /\ swIdle

\* the control of the two loops: the loop variables x and t and the position
SamplingControl ==
    \/ /\ wsPc = "wave"
       /\ \/ fle(wvX, Lit(maxN)) /\ wvX' = fadd(wvX, waveStep) /\ wsPc' = wsPc
          \/ ~fle(wvX, Lit(maxN)) /\ wvX' = wvX /\ wsPc' = "done"
       /\ sumT' = sumT
    \/ /\ wsPc = "sum"
       /\ \/ fle(wvX, Lit(maxN)) /\ sumT' = Lit(2) /\ wsPc' = "inner"
          \/ ~fle(wvX, Lit(maxN)) /\ sumT' = sumT /\ wsPc' = "done"
       /\ wvX' = wvX
    \/ /\ wsPc = "inner"
       /\ \/ flt(sumT, wvX) /\ sumT' = fadd(sumT, subDt) /\ wvX' = wvX /\ wsPc' = wsPc
          \/ ~flt(sumT, wvX) /\ sumT' = sumT /\ wvX' = fadd(wvX, waveStep) /\ wsPc' = "sum"

\* for (let x = 2; x <= maxN; x += 0.2) { ...; wavePoints.push(...) }
WaveIter ==
    /\ wsPc = "wave" /\ fle(wvX, Lit(maxN)) /\ SamplingControl
    /\ wavePoint' = Vector3(wvX, waveY(wvX, wvGamma), zOffset(gammas, wvGamma))
    /\ UNCHANGED <<gammas, allGammas, wvGamma, liVal, pairTerms, correction, sumPoint>>
    /\ UNCHANGED <<trialI, trialPc>>
    /\ UNCHANGED <<cxVars, ipVars, prVars, ztVars, liVars, cvVars, tbVars, swVars>>

\* x <= maxN fails: the loop of the wave is over
WaveExit ==
    /\ wsPc = "wave" /\ ~fle(wvX, Lit(maxN)) /\ SamplingControl
    /\ UNCHANGED <<gammas, allGammas, wvGamma, wavePoint, liVal, pairTerms, correction, sumPoint>>
    /\ UNCHANGED <<trialI, trialPc>>
    /\ UNCHANGED <<cxVars, ipVars, prVars, ztVars, liVars, cvVars, tbVars, swVars>>

\* for (let x = 2; x <= maxN; x += 0.2) { let liVal = 0; for (let t = 2; ...
SumEnter ==
    /\ wsPc = "sum" /\ fle(wvX, Lit(maxN)) /\ SamplingControl
    /\ liVal' = Lit(0)
    /\ UNCHANGED <<gammas, allGammas, wvGamma, wavePoint, pairTerms, correction, sumPoint>>
    /\ UNCHANGED <<trialI, trialPc>>
    /\ UNCHANGED <<cxVars, ipVars, prVars, ztVars, liVars, cvVars, tbVars, swVars>>

\* for (let t = 2; t < x; t += subDt) { liVal += (1 / Math.log(t)) * subDt; }
SumInner ==
    /\ wsPc = "inner" /\ flt(sumT, wvX) /\ SamplingControl
    /\ liVal' = liValBody(sumT, liVal)
    /\ UNCHANGED <<gammas, allGammas, wvGamma, wavePoint, pairTerms, correction, sumPoint>>
    /\ UNCHANGED <<trialI, trialPc>>
    /\ UNCHANGED <<cxVars, ipVars, prVars, ztVars, liVars, cvVars, tbVars, swVars>>

\* t < x fails: the correction, sumPoints.push(...), and x += 0.2
SumPush ==
    /\ wsPc = "inner" /\ ~flt(sumT, wvX) /\ SamplingControl
    /\ pairTerms' = pairWaves(gammas, wvX)
    /\ correction' = correctionLoop(pairWaves(gammas, wvX), 1, Lit(0))
    /\ sumPoint' = Vector3(wvX,
                           fadd(liVal, correctionLoop(pairWaves(gammas, wvX), 1, Lit(0))),
                           Lit(0))
    /\ UNCHANGED <<gammas, allGammas, wvGamma, wavePoint, liVal>>
    /\ UNCHANGED <<trialI, trialPc>>
    /\ UNCHANGED <<cxVars, ipVars, prVars, ztVars, liVars, cvVars, tbVars, swVars>>

\* x <= maxN fails: the loop of the explicit sum is over
SumExit ==
    /\ wsPc = "sum" /\ ~fle(wvX, Lit(maxN)) /\ SamplingControl
    /\ UNCHANGED <<gammas, allGammas, wvGamma, wavePoint, liVal, pairTerms, correction, sumPoint>>
    /\ UNCHANGED <<trialI, trialPc>>
    /\ UNCHANGED <<cxVars, ipVars, prVars, ztVars, liVars, cvVars, tbVars, swVars>>

NextSampling == WaveIter \/ WaveExit \/ SumEnter \/ SumInner \/ SumPush \/ SumExit

---------------------------------------------------------------------------
(* The loops of the program, each run to its end: a call of zeta, a call of
   isPrime, the data generation of initPrimes, the number line of initZeta,
   and the sampling loops of the waves and of the explicit sum.  A function
   that has been called is executed until it returns: whenever a statement
   can be executed, one is. *)

InitLoops ==
    InitZeta \/ InitIsPrimeLoop \/ InitPrimes \/ InitZetaTab \/ InitWaveLoop \/ InitSumLoop

NextLoops == NextZeta \/ NextIsPrimeLoop \/ NextPrimes \/ NextZetaTab \/ NextSampling

\* The loops over integers are fair as they stand.  An action of zeta, of the
\* Li(x) curve or of the sampling loops is its control and assignments of
\* values computed from the current state, so it can be taken exactly when
\* its control can: for these the fairness is stated of the control.
Executing ==
    /\ WF_vars(NextIsPrimeLoop \/ ScanStep \/ StepStart \/ StepPrime \/ StepFinish
                  \/ NextZetaTab)
    /\ WF_<<n, zPc>>(ZetaControl)
    /\ WF_liPc(LiControl)
    /\ WF_<<wvX, sumT, wsPc>>(SamplingControl)

SpecLoops == InitLoops /\ [][NextLoops]_vars /\ Executing

---------------------------------------------------------------------------
(* Properties *)

\* trial division: k >= 2 has no divisor d with 2 <= d < k
TrialDivisionPrime(k) == k >= 2 /\ \A d \in 2..(k - 1) : k % d # 0

\* pi(x): the number of primes <= x
PiOf(x) == Cardinality({q \in 2..x : TrialDivisionPrime(q)})

\* C1: for every n in 0..MaxNum, isPrime(n) is true exactly when n >= 2 and n
\* has no divisor d with 2 <= d < n; it is false for n < 2, true for 2 and 97,
\* and false for the perfect squares 4, 9, 25.
C1_IsPrimeIsTrialDivision ==
    verdict \in {"true", "false"} =>
        /\ (verdict = "true") <=> TrialDivisionPrime(num)
        /\ (num < 2 => verdict = "false")
        /\ (num \in {2, 97} => verdict = "true")
        /\ (num \in {4, 9, 25} => verdict = "false")

\* isPrime has rejected 961 = 31 * 31, whose only divisor is the loop's last i
C1_Witness == num = 961 /\ verdict = "false"

\* C2: after the scan loop, primes lists exactly the primes of 0..maxN in
\* strictly increasing order (so without duplicates): 25 entries, the first 2
\* and the last 97, for maxN = 100.
C2_PrimesAreThePrimesUpToMaxN ==
    prPc \in {"steps", "done"} =>
        /\ \A k \in 1..(Len(primes) - 1) : primes[k] < primes[k + 1]
        /\ {primes[k] : k \in 1..Len(primes)} = {q \in 0..maxN : TrialDivisionPrime(q)}
        /\ (maxN = 100 => Len(primes) = 25 /\ primes[1] = 2 /\ primes[25] = 97)

\* the scan has ended with its primes
C2_Witness == prPc = "steps" /\ scanI = maxN + 1 /\ Len(primes) > 0

\* C3: the finished step sequence is (0,0), then for the k-th prime p the
\* points (p, k-1) and (p, k), then (maxN, |primes|): 2 * |primes| + 2 points.
C3_StepSequenceShape ==
    prPc = "done" =>
        /\ Len(stepPoints) = 2 * Len(primes) + 2
        /\ stepPoints[1] = Vector3(0, 0, 0)
        /\ \A k \in 1..Len(primes) :
              /\ stepPoints[2 * k] = Vector3(primes[k], k - 1, 0)
              /\ stepPoints[2 * k + 1] = Vector3(primes[k], k, 0)
        /\ stepPoints[Len(stepPoints)] = Vector3(maxN, Len(primes), 0)

\* the step sequence is finished and has a horizontal and a jump point per prime
C3_Witness == prPc = "done" /\ Len(primes) >= 2 /\ Len(stepPoints) > Len(primes) + 2

\* the last index of pts whose point has x-coordinate x
LastAt(pts, x) ==
    CHOOSE j \in 1..Len(pts) :
        /\ pts[j].x = x
        /\ \A i \in (j + 1)..Len(pts) : pts[i].x # x

\* C4: in the finished step sequence the last point at a prime p has count
\* pi(p) (10 at x = 29), and every point (x, c) has c = pi(x) or c = pi(x) - 1.
C4_StepSequenceCountsPrimes ==
    prPc = "done" =>
        /\ \A k \in 1..Len(primes) :
              /\ \E j \in 1..Len(stepPoints) : stepPoints[j].x = primes[k]
              /\ stepPoints[LastAt(stepPoints, primes[k])].y = PiOf(primes[k])
        /\ (\E k \in 1..Len(primes) : primes[k] = 29)
              => stepPoints[LastAt(stepPoints, 29)].y = 10
        /\ \A j \in 1..Len(stepPoints) :
              stepPoints[j].y \in {PiOf(stepPoints[j].x), PiOf(stepPoints[j].x) - 1}

\* the step sequence is finished and has reached count 10 at x = 29
C4_Witness ==
    /\ prPc = "done"
    /\ \E j \in 1..Len(stepPoints) : stepPoints[j] = Vector3(29, 10, 0)

\* C5: consecutive points of the step sequence never decrease in x or in
\* count, the final segment to maxN included.
C5_StepSequenceMonotone ==
    \A j \in 1..(Len(stepPoints) - 1) :
        /\ stepPoints[j].x <= stepPoints[j + 1].x
        /\ stepPoints[j].y <= stepPoints[j + 1].y

\* the finished sequence, whose last two points are the final segment
C5_Witness ==
    /\ prPc = "done" /\ Len(stepPoints) >= 4
    /\ stepPoints[Len(stepPoints)].x = maxN
    /\ stepPoints[Len(stepPoints) - 1].x < maxN

\* the alternating sum of the claim: from (0,0), the terms inv(pow(k, s)) for
\* k = 1, 2, ..., m in this order, added for odd k and subtracted for even k
RECURSIVE AlternatingSum(_, _)
AlternatingSum(sArg, m) ==
    IF m = 0 THEN ComplexNumber(Lit(0), Lit(0))
    ELSE LET term == inv(pow(Lit(m), sArg))
         IN  IF m % 2 = 1 THEN add(AlternatingSum(sArg, m - 1), term)
             ELSE sub(AlternatingSum(sArg, m - 1), term)

\* C6: at every point of zeta's loop etaSum is the alternating sum of the
\* terms 1..n-1 taken in increasing order from (0,0), odd terms added and even
\* terms subtracted, and the loop ends after exactly the terms 1..terms.
C6_SeriesInOrder ==
    zPc \in {"loop", "done"} =>
        /\ n \in 1..(terms + 1)
        /\ etaSum = AlternatingSum(s, n - 1)
        /\ (zPc = "done" => n = terms + 1)

\* zeta has summed at least three terms for an s left open
C6_Witness ==
    /\ zPc = "done" /\ terms >= 3
    /\ s = ComplexNumber(Sym(1), Sym(2))

\* C7: zeta returns multiply(etaSum, inv(denominator)) with
\* denominator = (1,0) - pow(2, (1 - s.re, -s.im)), and nothing else.
C7_ZetaIsEtaOverDenominator ==
    zPc = "done" =>
        /\ denominator =
              sub(ComplexNumber(Lit(1), Lit(0)),
                  pow(Lit(2), ComplexNumber(fsub(Lit(1), s.re), fneg(s.im))))
        /\ zetaRes = multiply(etaSum, inv(denominator))

\* zeta has returned for an s with a non-zero imaginary part
C7_Witness == zPc = "done" /\ s = ComplexNumber(Lit(2), Lit(1)) /\ terms >= 2

\* C8: at s = (1,0) the denominator is exactly zero, its inverse has NaN
\* components and zeta returns NaN components, whatever the terms >= 1.
C8_ZetaAtOneIsNaN ==
    (zPc = "done" /\ s = ComplexNumber(Lit(1), Lit(0))) =>
        /\ terms >= 1
        /\ denominator = ComplexNumber(Lit(0), Lit(0))
        /\ inv(denominator) = ComplexNumber(NaN, NaN)
        /\ zetaRes = ComplexNumber(NaN, NaN)

\* zeta has returned at s = (1,0)
C8_Witness == zPc = "done" /\ s = ComplexNumber(Lit(1), Lit(0)) /\ IsNaN(zetaRes.re)

\* C9: for a non-zero a with integer components, inv(a) is (a.re/d, -a.im/d)
\* with d = a.re^2 + a.im^2, and multiply(a, inv(a)) is exactly (1, 0).
C9_MultiplyByInverseIsOne ==
    opA # Zero =>
        LET d == opA.re.num * opA.re.num + opA.im.num * opA.im.num
        IN  /\ opName = "inv" =>
                  opRes = ComplexNumber(Rat(opA.re.num, d), Rat(-opA.im.num, d))
            /\ (opName = "multiply" /\ opB = inv(opA)) =>
                  opRes = ComplexNumber(Lit(1), Lit(0))

\* a = 1 + 2i has been multiplied by its inverse (1/5, -2/5)
C9_Witness ==
    /\ opName = "multiply" /\ opA = ComplexNumber(Lit(1), Lit(2))
    /\ opB = ComplexNumber(Rat(1, 5), Rat(-2, 5))

\* C10: add(a, b) and add(b, a) have the same real part and the same
\* imaginary part.
C10_AddCommutes ==
    opName = "add" =>
        /\ opRes.re = add(opB, opA).re
        /\ opRes.im = add(opB, opA).im

\* two different operands, neither real nor imaginary only, have been added
C10_Witness ==
    /\ opName = "add"
    /\ opA = ComplexNumber(Lit(1), Lit(2)) /\ opB = ComplexNumber(Lit(-2), Lit(1))

\* C13: the Li points cover exactly [2, maxN]: the first point is (2, 0), the
\* point of index k is at x = 2 + k * dt, no point has x > maxN, and the last
\* point of the finished curve is at x = maxN.
C13_LiCoversFromTo ==
    liPc = "done" =>
        /\ liPoints[1] = Vector3(Lit(2), Lit(0), Lit(0))
        /\ \A j \in 1..Len(liPoints) :
              /\ liPoints[j].x = fadd(Lit(2), fmul(Lit(j - 1), dt))
              /\ fle(liPoints[j].x, Lit(maxN))
        /\ liPoints[Len(liPoints)].x = Lit(maxN)

\* the sign of the real number a term stands for: 1, -1 or 0, or 2 where
\* the sign is not decided here.  ln(q) has the sign of q - 1.
RECURSIVE TermSign(_)
TermSign(t) ==
    LET Prod(a, b) == IF a = 2 \/ b = 2 THEN 2 ELSE a * b
    IN  CASE t.tag \in {"q", "inf", "ninf"} -> Sgn(t)
          [] t.tag = "log" /\ IsRat(t.args[1]) /\ Sgn(t.args[1]) > 0 ->
                IF t.args[1].num > t.args[1].den THEN 1
                ELSE IF t.args[1].num < t.args[1].den THEN -1 ELSE 0
          [] t.tag \in {"exp", "sqrt"} -> 1
          [] t.tag = "neg" -> Prod(-1, TermSign(t.args[1]))
          [] t.tag = "mul" -> Prod(TermSign(t.args[1]), TermSign(t.args[2]))
          [] t.tag = "div" ->
                IF TermSign(t.args[2]) = 0 THEN 2
                ELSE Prod(TermSign(t.args[1]), TermSign(t.args[2]))
          [] OTHER -> 2

\* C14: along the Li points x strictly increases, and so does the value: the
\* y of each point is the y of the point before plus a term that is positive
\* (dt / ln(mid) with mid > 1).
C14_LiStrictlyIncreasing ==
    \A j \in 1..(Len(liPoints) - 1) :
        LET p == liPoints[j]
            q == liPoints[j + 1]
        IN  /\ flt(p.x, q.x)
            /\ q.y.tag = "add"
            /\ q.y.args[1] = (IF j = 1 THEN p.y ELSE PointY(j))
            /\ TermSign(q.y.args[2]) = 1

\* the finished Li curve, with the points of all its steps
C14_Witness == liPc = "done" /\ Len(liPoints) > 900

\* The value of a term of the waves once Math.sqrt(x) is taken to be r and
\* Math.sin(|gamma| * ln x) to be v, with the sine odd: the sine of a phase
\* with a negative gamma is -v.
RECURSIVE Interp(_, _, _)
Interp(t, r, v) ==
    CASE t.tag = "sqrt" -> r
      [] t.tag = "sin" ->
            IF t.args[1].tag = "mul" /\ IsRat(t.args[1].args[1]) /\ Sgn(t.args[1].args[1]) < 0
            THEN fneg(v) ELSE v
      [] t.tag = "neg" -> fneg(Interp(t.args[1], r, v))
      [] t.tag = "add" -> fadd(Interp(t.args[1], r, v), Interp(t.args[2], r, v))
      [] t.tag = "sub" -> fsub(Interp(t.args[1], r, v), Interp(t.args[2], r, v))
      [] t.tag = "mul" -> fmul(Interp(t.args[1], r, v), Interp(t.args[2], r, v))
      [] t.tag = "div" -> fdiv(Interp(t.args[1], r, v), Interp(t.args[2], r, v))
      [] OTHER -> t

\* values a square root of x >= 2 can take, and values a sine can take
SqrtValues == {Rat(3, 2), Lit(2), Lit(3)}
SinValues == {Lit(-1), Rat(-1, 2), Lit(0), Rat(1, 2), Lit(1)}

\* C11: at a sample x, the term the explicit sum adds for the pair of |gamma|
\* equals the y of the wave of gamma plus the y of the wave of -gamma,
\* whatever the values of sqrt(x) and of the (odd) sine.
C11_PairTermIsSumOfWaves ==
    (wavePoint # NoPoint /\ sumPoint # NoPoint) =>
        \A r \in SqrtValues, v \in SinValues :
            Interp(pairTerms[indexOf(gammas, MathAbs(wvGamma)) + 1], r, v)
              = fadd(Interp(wavePoint.y, r, v), Interp(waveY(wvX, fneg(wvGamma)), r, v))

\* the midpoint sum of the Li curve over the sub-intervals [t, t + dt] of
\* [2, x]: the loop body of the Li curve from t on, for as long as t < x
RECURSIVE MidpointSum(_, _, _)
MidpointSum(t, x, acc) ==
    IF flt(t, x) THEN MidpointSum(fadd(t, dt), x, liBody(t, acc).y) ELSE acc

\* C12: at every sample x of the explicit-sum curve, the Li component liVal
\* is the midpoint sum of the Li curve over [2, x] (1/ln sampled at t + dt/2).
C12_SumUsesMidpointLi ==
    sumPoint # NoPoint => liVal = MidpointSum(Lit(2), wvX, Lit(0))

\* gs is strictly increasing and positive
IncreasingPositive(gs) ==
    /\ \A i \in 1..Len(gs) : flt(Lit(0), gs[i])
    /\ \A i \in 1..(Len(gs) - 1) : flt(gs[i], gs[i + 1])

\* all holds, for every g of gs, g once and -g once, and nothing else
SignedOnce(gs, all) ==
    /\ Len(all) = 2 * Len(gs)
    /\ \A i \in 1..Len(gs) :
          /\ Cardinality({j \in 1..Len(all) : all[j] = gs[i]}) = 1
          /\ Cardinality({j \in 1..Len(all) : all[j] = fneg(gs[i])}) = 1
    /\ \A j \in 1..Len(all) : \E i \in 1..Len(gs) : all[j] \in {gs[i], fneg(gs[i])}
    /\ \A j \in 1..Len(all) : ~IsZero(all[j])

\* C20: the known-zero list stays the literal it was built from, strictly
\* increasing and positive, and the signed list holds each of its values and
\* each negation exactly once and nothing else; so for both tabs' lists.
C20_ZeroListsWellFormed ==
    /\ gammas # <<>> =>
          /\ gammas = gammasLiteral
          /\ IncreasingPositive(gammas)
          /\ SignedOnce(gammas, allGammas)
    /\ IncreasingPositive(positiveZeroes)
    /\ SignedOnce(positiveZeroes, knownZeroes)

\* both loops over the lists have run, the wave for a negative gamma
C20_Witness ==
    /\ wavePoint # NoPoint /\ sumPoint # NoPoint
    /\ flt(wvGamma, Lit(0)) /\ Len(pairTerms) = Len(gammas)

\* C21: the two tabs use the same known-zero data: the ordinates of the
\* explicit-formula waves (gammas of initPrimes) are, element for element,
\* the ordinates that mark the non-trivial zeros (positiveZeroes of initZeta).
C21_SameZeroData ==
    gammas # <<>> =>
        /\ Len(gammas) = Len(positiveZeroes)
        /\ \A i \in 1..Len(gammas) : gammas[i] = positiveZeroes[i]

\* the point (x, y, 0) of exact integers
IntPoint(x, y) == Vector3(Lit(x), Lit(y), Lit(0))

\* C26: the pi(x) step sequence of the zeta tab starts at (0, 0); for the
\* k-th prime p of [2, 3, 5, 7, 11, 13] it holds the horizontal point
\* ((p - 0.5) * 8, 2 (k - 1)) and right after it the jump point
\* ((p - 0.5) * 8, 2 k); it is non-decreasing in both coordinates; and once
\* the loop is over it ends at the jump of the last prime, (100, 12), with no
\* point after it.  (p - 0.5) * 8 is the integer 8 p - 4.
C26_ZetaTabSteps ==
    piPoints # <<>> =>
        /\ piPoints[1] = IntPoint(0, 0)
        /\ Len(piPoints) = 1 + 2 * piCount
        /\ \A k \in 1..piCount :
              /\ piPoints[2 * k] = IntPoint(8 * tabPrimes[k] - 4, 2 * (k - 1))
              /\ piPoints[2 * k + 1] = IntPoint(8 * tabPrimes[k] - 4, 2 * k)
        /\ \A i \in 1..(Len(piPoints) - 1) :
              /\ fle(piPoints[i].x, piPoints[i + 1].x)
              /\ fle(piPoints[i].y, piPoints[i + 1].y)
        /\ tabPc \in {"approx", "done"} =>
              /\ piCount = 6 /\ tabPrimes = <<2, 3, 5, 7, 11, 13>>
              /\ piPoints[Len(piPoints)] = IntPoint(100, 12)
              /\ Len(piPoints) = 13

\* the loop over the primes is over and the curve after it has been drawn
C26_Witness ==
    /\ tabPc = "done" /\ Len(piPoints) = 13 /\ Len(primePos) = 18

\* z is (E * cos(b), E * sin(b)) with one E and one b: a value pow has built,
\* of magnitude |E|
IsPolar(z) ==
    /\ z.re.tag = "mul" /\ z.im.tag = "mul"
    /\ z.im.args[1] = z.re.args[1]
    /\ z.re.args[2].tag = "cos" /\ z.im.args[2].tag = "sin"
    /\ z.im.args[2].args[1] = z.re.args[2].args[1]

\* z is not the zero complex value: a rational pair other than (0, 0), or
\* (E cos b, E sin b) with E positive (an exp(a), or a positive rational)
PositiveMagnitude(z) ==
    IF IsRat(z.re) /\ IsRat(z.im) THEN ~(IsZero(z.re) /\ IsZero(z.im))
    ELSE IsPolar(z) /\ TermSign(z.re.args[1]) = 1

\* the magnitude of z is not 1: z is (E cos b, E sin b) with E = exp(a) and
\* a of a definite sign other than 0
MagnitudeNotOne(z) ==
    /\ IsPolar(z)
    /\ z.re.args[1].tag = "exp"
    /\ TermSign(z.re.args[1].args[1]) \in {1, -1}

\* C23: in the zeta visualization inv is never applied to the zero value:
\* each step of the series loop inverts n^s, a value of positive magnitude,
\* and the continuation inverts (1, 0) - 2^(1-s), which is not zero as the
\* magnitude of 2^(1-s) is not 1; and no coordinate of a point of the curve
\* is NaN.  It is stated of every call of zeta at an s with s.re = sigma,
\* the only calls the visualization makes.
C23_InvOperandsNonZero ==
    [][ /\ (zPc = "loop" /\ n' # n /\ s.re = sigma) =>
              LET n_s == pow(Lit(n), s)
              IN  /\ etaSum' \in {add(etaSum, inv(n_s)), sub(etaSum, inv(n_s))}
                  /\ PositiveMagnitude(n_s)
        /\ (zPc = "loop" /\ zPc' = "done" /\ s.re = sigma) =>
              LET twoPow == pow(Lit(2), ComplexNumber(fsub(Lit(1), s.re), fneg(s.im)))
              IN  /\ denominator' = sub(ComplexNumber(Lit(1), Lit(0)), twoPow)
                  /\ zetaRes' = multiply(etaSum, inv(denominator'))
                  /\ MagnitudeNotOne(twoPow)
        /\ zPc' = "loop" => (s'.re = sigma /\ (cvPc = "loop" => s'.im = cvT))
        /\ \A i \in 1..Len(cvPoints') :
              ~IsNaN(cvPoints'[i].x) /\ ~IsNaN(cvPoints'[i].z)
      ]_vars

\* a call on the critical line has inverted its terms and the denominator
C23_Witness ==
    /\ zPc = "done" /\ s = ComplexNumber(Rat(1, 2), Sym(2)) /\ terms = 3 /\ n = 4
    /\ denominator # Unset /\ zetaRes # Unset

\* C24: after any sequence of calls of switchTab (none running) the page
\* holds only what the last call's init made: exactly one legend box is in
\* the document, the one of that init; every child of the scene was added by
\* that init (and the children are the ones it adds); every label element in
\* the document is one of its labels; and cleanupCurrentScene is not null
\* and is the cleanup that init returned.
C24_OnlyLatestTab ==
    (swPc = "idle" /\ Len(callTab) >= 1) =>
        LET last == Len(callTab)
        IN  /\ Cardinality(legends) = 1 /\ legends = {last}
            /\ \A i \in 1..Len(sceneChildren) : sceneChildren[i].owner = last
            /\ sceneChildren = initObjects(callTab[last], last)
            /\ \A e \in labelEls : e.owner = last
            /\ cleanupCurrentScene # 0 /\ cleanupCurrentScene = last

\* zeta was selected after primes and then selected again, and a frame has
\* been rendered since
C24_Witness ==
    /\ swPc = "idle" /\ callTab = <<"primes", "zeta", "zeta">>
    /\ labelEls # {} /\ cleanupCurrentScene = 3

\* init is called: a cleanup is stored in cleanupCurrentScene
InitCalled == cleanupCurrentScene' # cleanupCurrentScene /\ cleanupCurrentScene' # 0

\* cleanup k is invoked
CleanupInvoked(k) == invoked'[k] # invoked[k]

\* C25: the steps of switchTab happen in one order.  A cleanup is invoked
\* only while it is the one cleanupCurrentScene holds, for the first time,
\* and before anything is removed from the scene; the reference is only
\* reset to null after that invocation; objects leave the scene and label
\* elements are removed by switchTab only once the reference is null; and
\* init is called only when the reference is null, the scene is empty and no
\* label element is left, every cleanup returned before having been invoked
\* exactly once.  No cleanup is ever invoked twice.
C25_SwitchOrder ==
    [][ /\ \A k \in 1..Len(invoked) :
              CleanupInvoked(k) =>
                  /\ k = cleanupCurrentScene /\ cleanupCurrentScene' = k
                  /\ invoked[k] = 0 /\ invoked'[k] = 1
                  /\ sceneChildren' = sceneChildren
                  /\ sceneChildren = initObjects(callTab[k], k)
        /\ (cleanupCurrentScene # 0 /\ cleanupCurrentScene' = 0) =>
              /\ invoked[cleanupCurrentScene] = 1
              /\ sceneChildren' = sceneChildren /\ labelEls' = labelEls
        /\ Len(sceneChildren') < Len(sceneChildren) => cleanupCurrentScene = 0
        /\ (swPc = "clear" /\ swPc' = "init") =>
              cleanupCurrentScene = 0 /\ sceneChildren = <<>>
        /\ InitCalled =>
              /\ cleanupCurrentScene = 0 /\ sceneChildren = <<>> /\ labelEls = {}
              /\ cleanupCurrentScene' = Len(callTab)
              /\ \A k \in 1..(Len(callTab) - 1) : invoked[k] = 1
              /\ invoked[Len(callTab)] = 0
        /\ \A k \in 1..Len(invoked') : invoked'[k] <= 1
      ]_vars

\* a third call of switchTab has called its init, after the cleanups of the
\* first two calls have been invoked
C25_Witness ==
    /\ Len(callTab) = 3 /\ swPc = "idle" /\ cleanupCurrentScene = 3
    /\ invoked = <<1, 1, 0>> /\ callTab[2] = "zeta"

\* how often the body of the loop of isPrime has been entered: i - 2 times
\* while the loop runs and once it has been left by its test, one more when
\* it has been left by return false
trialIterations ==
    IF trialI < 2 THEN 0
    ELSE IF trialPc = "done" /\ verdict = "false" THEN trialI - 1
    ELSE trialI - 2

\* the counts of the loops: the series loop of zeta has run n - 1 times, at
\* most `terms` times and exactly `terms` times once zeta has returned; the
\* loop of isPrime has run k times with k <= floor(sqrt(num)) - 1, which is
\* (k + 1)^2 <= num, or not at all (num < 4); the prime scan has run
\* maxN + 1 times once it is over
LoopCounts ==
    /\ zPc = "loop" => n - 1 <= terms
    /\ zPc = "done" => n - 1 = terms
    /\ trialPc \in {"loop", "done"} =>
          \/ trialIterations = 0
          \/ (trialIterations + 1) * (trialIterations + 1) <= num
    /\ prPc = "scan" => scanI <= maxN + 1
    /\ prPc \in {"steps", "done"} => scanI = maxN + 1

\* the steps of the sampling loops: the loop variable grows in every
\* iteration, an iteration runs only while the variable has not passed the
\* upper bound, and the loop is left only when it has
LoopSteps ==
    /\ (liPc = "idle" /\ liPc' = "done") =>
          /\ flt(Lit(maxN), liX')
          /\ fle(liPoints'[Len(liPoints') - 1].x, Lit(maxN))
          /\ \A j \in 1..(Len(liPoints') - 1) : flt(liPoints'[j].x, liPoints'[j + 1].x)
    /\ (tabPc = "approx" /\ approxX' # approxX) =>
          flt(approxX, approxX') /\ fle(approxX, approxTo)
    /\ (tabPc = "approx" /\ tabPc' = "done") => flt(approxTo, approxX)
    /\ (wsPc \in {"wave", "inner"} /\ wvX' # wvX) =>
          flt(wvX, wvX') /\ fle(wvX, Lit(maxN))
    /\ (wsPc \in {"wave", "sum"} /\ wsPc' = "done") => flt(Lit(maxN), wvX)
    /\ (wsPc = "inner" /\ sumT' # sumT) => flt(sumT, sumT') /\ flt(sumT, wvX)
    /\ (wsPc = "inner" /\ wsPc' = "sum") => fle(wvX, sumT)

\* the function that was called has returned
Returned ==
    /\ zPc \in {"idle", "done"} /\ trialPc \in {"idle", "done"}
    /\ prPc \in {"idle", "done"} /\ (prPc = "done" => liPc = "done")
    /\ tabPc \in {"idle", "done"} /\ wsPc \in {"idle", "done"}

CertainlyLe(x, y) ==
    /\ IsNum(x) /\ IsNum(y)
    /\ IF IsRat(x) /\ IsRat(y) THEN fle(x, y) ELSE ToIv(x).den <= ToIv(y).num

\* C17: zeta((2,0), 200) has its real part within 1/100 of pi^2/6 and its
\* imaginary part within 1/100 of 0.  With 1.644934 < pi^2/6 < 1.644935, a
\* real part in [1.634935, 1.654934] is within 1/100 of pi^2/6.
C17_ZetaAtTwoIsBasel ==
    (zPc = "done" /\ s = ComplexNumber(Lit(2), Lit(0)) /\ terms = 200) =>
        /\ CertainlyLe(Rat(1634935, 1000000), zetaRes.re)
        /\ CertainlyLe(zetaRes.re, Rat(1654934, 1000000))
        /\ CertainlyLe(Rat(-1, 100), zetaRes.im)
        /\ CertainlyLe(zetaRes.im, Rat(1, 100))

\* zeta((2,0), 200) has returned after its 200 terms
C17_Witness ==
    /\ zPc = "done" /\ s = ComplexNumber(Lit(2), Lit(0)) /\ terms = 200
    /\ n = 201 /\ IsNum(zetaRes.re)

\* C18: every call of zeta runs with terms >= 1: the default of the parameter
\* is 100, the one call site (createZetaCurve) passes 200, and a call that
\* has left its loop has run the loop body at least once.
C18_TermsAtLeastOne ==
    /\ zetaEntry(<<s>>).terms = 100
    /\ zPc \in {"loop", "done"} =>
          /\ terms >= 1
          /\ (cvPc = "loop" => terms = 200)
    /\ zPc = "done" => n >= 2

\* createZetaCurve has called zeta with 200 terms, and the loop body has run
C18_Witness == cvPc = "loop" /\ zPc = "loop" /\ terms = 200 /\ n = 2

\* C19: every call of pow passes a positive integer base: the step of the
\* series loop adds or subtracts inv(pow(n, s)) for the loop index n, an
\* integer with 1 <= n <= terms, and the continuation computes its
\* denominator from pow(2, (1 - s.re, -s.im)).
C19_PowBasesPositive ==
    [][ /\ (zPc = "loop" /\ n' # n) =>
              /\ n \in 1..terms
              /\ etaSum' \in {add(etaSum, inv(pow(Lit(n), s))),
                              sub(etaSum, inv(pow(Lit(n), s)))}
        /\ (zPc = "loop" /\ zPc' = "done") =>
              denominator' = sub(ComplexNumber(Lit(1), Lit(0)),
                                 pow(Lit(2), ComplexNumber(fsub(Lit(1), s.re), fneg(s.im))))
      ]_vars

\* zeta has run its loop and its continuation for an s off the real axis
C19_Witness ==
    /\ zPc = "done" /\ terms >= 3
    /\ s = ComplexNumber(Rat(1, 2), Sym(2))

\* C15: no operation changes its operands: a step that applies add, sub,
\* multiply, inv or pow leaves the operands a and b as they were, its result
\* being a value of its own, and no step of zeta changes s.
C15_OperandsUnchanged ==
    [][ /\ (opName = "none" /\ opName' \in {"add", "sub", "multiply", "inv", "pow"}) =>
              opA' = opA /\ opB' = opB
        /\ (zPc = "loop" /\ zPc' \in {"loop", "done"}) => s' = s
      ]_vars

\* pow has been applied to an operand with both components non-zero
C15_Witness ==
    /\ opName = "pow" /\ opA = ComplexNumber(Lit(2), Lit(-1))
    /\ opRes # Unset /\ opRes # opA

---------------------------------------------------------------------------
(* The program: any one of its parts *)

Init ==
    \/ InitComplex \/ InitIsPrime \/ InitPrimes \/ InitZeta \/ InitZetaAtTwo \/ InitCurve
    \/ InitWave \/ InitZetaTab \/ InitOnLine \/ InitMain \/ InitIsPrimeLoop
    \/ InitWaveLoop \/ InitSumLoop

Next ==
    \/ NextComplex \/ NextIsPrime \/ NextPrimes \/ NextZeta \/ NextCurve \/ NextWave
    \/ NextZetaTab \/ NextMain \/ NextIsPrimeLoop \/ NextSampling

Spec == Init /\ [][Next]_vars

=============================================================================
